---- MODULE Spec2Model ----
(***************************************************************************)
(* A model of the retrieval-augmented query pipeline of RAG_Pipeline:      *)
(* the generation client (src/src/llm.py), the pipeline                    *)
(* (src/src/rag_pipeline.py), the vector store (src/src/vectorstore.py)    *)
(* the service layer (src/services/rag_service.py), the session registry   *)
(* (src/services/session_service.py), the query classifier                 *)
(* (src/src/query_classifier.py) and the chat handlers of src/app.py.      *)
(***************************************************************************)
EXTENDS Integers, Sequences, FiniteSets, TLC

VARIABLES
    store,      \* the ChromaDB directory: collection name -> [exists, recs]
    uuids,      \* how many uuid4 values add_documents has drawn so far
    pc,         \* "idle", or "gen" while a service call waits in llm.generate
    call,       \* the context of the service call that is inside llm.generate
    gen,        \* the state of the running (or last) GeminiLLM.generate call
    result,     \* what the last service call handed back to its caller
    trace,      \* history: the outcome of every attempt of the generate call
    conc,       \* the two threads of the concurrent insert/query scenario
    sessions,   \* SessionService.sessions: session id -> session dictionary
    now,        \* datetime.now(), in minutes
    issued,     \* how many uuid4 values create_session has drawn so far
    destroyed,  \* history: the session ids removed from the registry
    dropped,    \* history: the collection names client.delete_collection removed
    last,       \* the last registry call: its name, argument and return value
    app,        \* one browser session of app.py: st.session_state and the run
    race        \* the threads of the concurrent counter-update scenario

svars == <<sessions, now, issued, destroyed, dropped, last, app, race>>

vars == <<store, uuids, pc, call, gen, result, trace, conc,
          sessions, now, issued, destroyed, dropped, last, app, race>>

----------------------------------------------------------------------------
(* Bounds of the model.                                                    *)

MaxTextLen == 1      \* longest model text, in characters
MaxChunks  == 2      \* most chunks one document splits into
MaxRecords == 2      \* most records inserted over a behaviour

----------------------------------------------------------------------------
(* Python values.                                                          *)

None == [some |-> FALSE]
Some(v) == [some |-> TRUE, val |-> v]

\* Strings are sequences of characters; "sp" is a blank, "ch" a letter.
Chars == {"sp", "ch"}
SeqsUpTo(S, n) == UNION {[1..k -> S] : k \in 0..n}
Texts == SeqsUpTo(Chars, MaxTextLen)

RECURSIVE LStrip(_)
LStrip(t) == IF t # <<>> /\ Head(t) = "sp" THEN LStrip(Tail(t)) ELSE t

RECURSIVE RStrip(_)
RStrip(t) ==
    IF t # <<>> /\ t[Len(t)] = "sp" THEN RStrip(SubSeq(t, 1, Len(t) - 1)) ELSE t

\* str.strip()
Strip(t) == RStrip(LStrip(t))

\* Python truth of an optional string: None and "" are false.
Truthy(t) == t.some /\ t.val # <<>>

----------------------------------------------------------------------------
(* GeminiLLM.generate (src/src/llm.py).                                    *)

DEFAULT_MAX_RETRIES == 3

STOP == 1
MAX_TOKENS == 2
SAFETY == 3
RECITATION == 4
OTHER_REASON == 5
FinishReasons == {0, STOP, MAX_TOKENS, SAFETY, RECITATION, OTHER_REASON}

TruncationNotice == <<"... [Response truncated due to length]">>

\* What one self.model.generate_content(prompt) can do: raise (a transport
\* error), answer without candidates, or answer with a first candidate that
\* has a finish reason and, possibly, text (response.text raises ValueError
\* when there is none).
Responses ==
    {[kind |-> "exception"], [kind |-> "nocandidates"]}
    \cup {[kind |-> "candidate", finish_reason |-> r, text |-> t] :
            r \in FinishReasons, t \in {None} \cup {Some(x) : x \in Texts}}

Return(t) == [ret |-> TRUE, text |-> t, err |-> "none"]
Raise(e) == [ret |-> FALSE, text |-> <<>>, err |-> e]

OnStop(response_text) ==
    IF Truthy(response_text) THEN Return(Strip(response_text.val))
    ELSE Raise("Response completed but no text returned")

OnMaxTokensAsFailure(response_text) == Raise("Response hit token limit")

OnMaxTokens(response_text) ==
    IF Truthy(response_text)
    THEN Return(Strip(response_text.val) \o TruncationNotice)
    ELSE Raise("Response hit token limit")

OnFallback(response_text) ==
    IF Truthy(response_text) THEN Return(Strip(response_text.val))
    ELSE Raise("Unexpected finish_reason")

\* The body of the try block: one attempt, ending in a return or a raise.
Attempt(resp) ==
    IF resp.kind = "exception" THEN Raise("transport error")
    ELSE IF resp.kind = "nocandidates"
    THEN Raise("No response candidates returned by the model")
    ELSE CASE resp.finish_reason = STOP -> OnStop(resp.text)
           [] resp.finish_reason = MAX_TOKENS -> OnMaxTokens(resp.text)
           [] resp.finish_reason = SAFETY ->
                Raise("Response blocked by safety filters")
           [] resp.finish_reason = RECITATION ->
                Raise("Response blocked due to recitation concerns")
           [] resp.finish_reason = OTHER_REASON ->
                Raise("Response generation stopped for unknown reason")
           [] OTHER -> OnFallback(resp.text)

\* except Exception as e: if attempt < max_retries - 1 (attempt counts from 0)
ShouldRetryOffByOne(attempt, max_retries) == attempt < max_retries - 2

ShouldRetry(attempt, max_retries) == attempt < max_retries - 1

\* A fixed pause between attempts.
WaitTimeConstant(attempt) == 1

\* wait_time = 2 ** attempt
WaitTime(attempt) == 2 ^ attempt

GenIdle ==
    [status |-> "idle", max_retries |-> 0, attempt |-> 0, calls |-> 0,
     waits |-> <<>>, text |-> None, err |-> "none"]

\* Entering generate: for attempt in range(max_retries). An empty range
\* falls through the loop and the function returns None.
GenBegin(max_retries) ==
    [GenIdle EXCEPT !.max_retries = max_retries,
                    !.status = IF max_retries > 0 THEN "running" ELSE "returned"]

\* One iteration of the loop on the response resp.
GenStep(g, resp) ==
    LET o == Attempt(resp)
        h == [g EXCEPT !.calls = @ + 1]
    IN  IF o.ret
        THEN [h EXCEPT !.status = "returned", !.text = Some(o.text)]
        ELSE IF ShouldRetry(g.attempt, g.max_retries)
        THEN [h EXCEPT !.waits = Append(@, WaitTime(g.attempt)),
                       !.attempt = @ + 1,
                       !.status = IF g.attempt + 1 < g.max_retries
                                  THEN "running" ELSE "returned"]
        ELSE [h EXCEPT !.status = "raised", !.err = o.err]

----------------------------------------------------------------------------
(* Sessions' collection names (src/services/session_service.py).           *)

\* str(uuid.uuid4()): hexadecimal groups separated by hyphens.
SessionIds == {<<"a1", "-", "b2">>, <<"c3", "-", "d4">>}

\* str.replace(old, new)
Replace(s, old, new) == [i \in 1..Len(s) |-> IF s[i] = old THEN new ELSE s[i]]

\* A name that leaves the session id out.
CollectionNameWithoutId(session_id) == <<"session_">>

\* collection_name = f"session_{session_id.replace('-', '_')}"
CollectionName(session_id) == <<"session_">> \o Replace(session_id, "-", "_")

\* collection_name: str = "pdf_documents"
DefaultCollection == <<"pdf_documents">>

CollNames == {CollectionName(sid) : sid \in SessionIds} \cup {DefaultCollection}

----------------------------------------------------------------------------
(* Embeddings and the ChromaDB collection (src/src/vectorstore.py).        *)

MaxVec == 3          \* embedding vectors are the directions 0..MaxVec * 60 degrees

Files == {"a.pdf"}

\* The embedding model is a fixed function of the text it is given.
EncodeChunk(f, i) == i % (MaxVec + 1)
EncodeQuestion(q) == Len(q) % (MaxVec + 1)

\* 100 * cos of d * 60 degrees
Cos100(d) ==
    CASE d % 6 = 0 -> 100
      [] d % 6 \in {1, 5} -> 50
      [] d % 6 \in {2, 4} -> -50
      [] OTHER -> -100

Abs(x) == IF x < 0 THEN -x ELSE x

\* The distance the index reports, in hundredths. The collection is created
\* with a description as its only metadata, so ChromaDB measures with its
\* default, the squared Euclidean distance; between unit vectors (the
\* embedding model normalises its output) that is 2 - 2 cos, from 0 to 4.
Distance(q, v) == 2 * (100 - Cos100(Abs(q - v)))

NoCollection == [exists |-> FALSE, recs |-> {}]
EmptyStore == [c \in CollNames |-> NoCollection]

\* The records of collection name in the directory st.
Records(st, name) == st[name].recs

\* client.get_collection(name): a missing collection stays missing.
InitializeStoreExistingOnly(st, name) == st

\* client.get_or_create_collection(name=self.collection_name): an existing
\* collection is opened as it is, a missing one is created empty.
InitializeStore(st, name) ==
    [st EXCEPT ![name] = [exists |-> TRUE, recs |-> @.recs]]

\* doc_id = f"doc_{uuid.uuid4().hex[:8]}_{i}", metadata, text and embedding
\* of document i of the batch (i counts from 0); u is the uuid4 drawn for it.
MakeRecord(u, i, doc, embedding) ==
    [id |-> [u |-> u, i |-> i], vec |-> embedding,
     source |-> doc.source, page |-> doc.page, named |-> doc.named]

\* One iteration of the for loop of add_documents: the record is appended to
\* the local lists ids/metadatas/documents_text/embeddings_list (pending);
\* the collection (recs) is not touched.
LoopBodyAddingEach(recs, pending, rec) ==
    [recs |-> recs \cup {rec}, pending |-> Append(pending, rec)]

LoopBody(recs, pending, rec) ==
    [recs |-> recs, pending |-> Append(pending, rec)]

Range(f) == {f[i] : i \in DOMAIN f}

\* self.collection.add(ids=..., embeddings=..., metadatas=..., documents=...):
\* one call for the whole batch, which stores every record or raises. Ids
\* are the collection's key: a record whose id the collection already holds
\* is left out without an error.
CollectionAdd(recs, pending, ok) ==
    IF ok
    THEN [recs |-> recs \cup {r \in Range(pending) :
                                \A s \in recs : s.id # r.id},
          raised |-> FALSE]
    ELSE [recs |-> recs, raised |-> TRUE]

RECURSIVE RunLoop(_, _, _, _, _, _)
RunLoop(recs, pending, u, docs, embeddings, i) ==
    IF i > Len(docs) \/ i > Len(embeddings)
    THEN [recs |-> recs, pending |-> pending]
    ELSE LET b == LoopBody(recs, pending,
                           MakeRecord(u + i - 1, i - 1, docs[i], embeddings[i]))
         IN  RunLoop(b.recs, b.pending, u, docs, embeddings, i + 1)

\* VectorStore.add_documents on the collection's records recs; the values
\* uuid4().hex[:8] drawn for the batch are u, u + 1, ...
AddDocuments(recs, docs, embeddings, u, addOk) ==
    IF Len(docs) # Len(embeddings)
    THEN [recs |-> recs, raised |-> TRUE,
          err |-> "Number of documents must match number of embeddings"]
    ELSE LET l == RunLoop(recs, <<>>, u, docs, embeddings, 1)
             a == CollectionAdd(l.recs, l.pending, addOk)
         IN  [recs |-> a.recs, raised |-> a.raised,
              err |-> IF a.raised THEN "index error" ELSE "none"]

\* The order ChromaDB ranks two records in: by distance to the query, ties
\* by id.
IdLeq(a, b) == a.u < b.u \/ (a.u = b.u /\ a.i <= b.i)

\* A ranking that puts the farthest record first.
Farther(r, s, q) ==
    \/ Distance(q, r.vec) > Distance(q, s.vec)
    \/ Distance(q, r.vec) = Distance(q, s.vec) /\ IdLeq(r.id, s.id)

Closer(r, s, q) ==
    \/ Distance(q, r.vec) < Distance(q, s.vec)
    \/ Distance(q, r.vec) = Distance(q, s.vec) /\ IdLeq(r.id, s.id)

\* collection.query(query_embeddings=[q], n_results=n): the n nearest
\* records, closest first, fewer when the collection holds fewer.
RECURSIVE CollectionQuery(_, _, _)
CollectionQuery(recs, q, n) ==
    IF n <= 0 \/ recs = {} THEN <<>>
    ELSE LET best == CHOOSE r \in recs : \A s \in recs : Closer(r, s, q)
         IN  <<best>> \o CollectionQuery(recs \ {best}, q, n - 1)

\* VectorStore.query
VectorStoreQuery(st, name, q, n) == CollectionQuery(Records(st, name), q, n)

\* clear_collection without its delete_collection call.
ClearCollectionKeepingRecords(st, name) == InitializeStore(st, name)

\* VectorStore.clear_collection: delete_collection, then _initialize_store
\* recreates the collection empty.
ClearCollection(st, name) ==
    InitializeStore([st EXCEPT ![name] = NoCollection], name)

----------------------------------------------------------------------------
(* RAGRetriever.retrieve (src/src/search.py) and RAGPipeline.answer        *)
(* (src/src/rag_pipeline.py).                                              *)

Clip(x, lo, hi) == IF x < lo THEN lo ELSE IF x > hi THEN hi ELSE x

\* similarity = 1 - distance, as it comes
SimilarityUnclipped(d) == 100 - d

\* similarity = 1 - distance, clipped to [0, 1] (in hundredths)
Similarity(d) == Clip(100 - d, 0, 100)

\* retrieve(query, top_k): embed the query, ask the index for the top_k
\* nearest records, map each to a result with its similarity score.
Retrieve(st, name, q, top_k) ==
    LET hits == VectorStoreQuery(st, name, q, top_k)
    IN  [i \in 1..Len(hits) |->
            [content |-> <<hits[i].source, hits[i].page>>,
             metadata |-> [source |-> hits[i].source, page |-> hits[i].page,
                           named |-> hits[i].named],
             similarity_score |-> Similarity(Distance(q, hits[i].vec)),
             rank |-> i]]

NoInfoAnswer ==
    <<"I couldn't find relevant information to answer this question.">>

\* enumerate(results) without its start argument numbers from 0.
ContextPartsFromZero(results) ==
    [i \in 1..Len(results) |->
        [marker |-> i - 1, source |-> results[i].metadata.source,
         page |-> results[i].metadata.page, content |-> results[i].content]]

\* context_parts: f"[Source {i}: {source}, Page {page}]\n{content}", i from 1
ContextParts(results) ==
    [i \in 1..Len(results) |->
        [marker |-> i, source |-> results[i].metadata.source,
         page |-> results[i].metadata.page, content |-> results[i].content]]

\* doc_dict['content'][:200] + "..."
Preview(content) ==
    SubSeq(content, 1, IF Len(content) < 200 THEN Len(content) ELSE 200)
        \o <<"...">>

\* The sources list of the returned dictionary. named is not a key of the
\* dictionary: it records which process_document call inserted the chunk.
Sources(results) ==
    [i \in 1..Len(results) |->
        [source |-> results[i].metadata.source,
         page |-> results[i].metadata.page,
         similarity |-> results[i].similarity_score,
         content |-> Preview(results[i].content),
         named |-> results[i].metadata.named]]

\* if not results:
NoResultsNever(results) == FALSE

NoResults(results) == results = <<>>

\* answer(), when retrieval found nothing: returned before any generation.
AnswerEmpty ==
    [answer |-> Some(NoInfoAnswer), sources |-> <<>>, context_used |-> <<>>]

\* answer(), after self.llm.generate(prompt) returned text.
AnswerWith(results, text) ==
    [answer |-> text, sources |-> Sources(results),
     context_used |-> ContextParts(results)]

----------------------------------------------------------------------------
(* RAGService (src/services/rag_service.py).                               *)

TOP_K_RESULTS == 3
MaxTopK == 1         \* largest top_k a caller passes explicitly

TopKs == {None} \cup {Some(k) : k \in 0..MaxTopK}
Questions == {None, Some(<<>>), Some(<<"sp">>), Some(<<"ch">>), Some(<<"ch", "ch">>)}

\* What a service call hands back. count is process_document's first
\* component; raised, cause and retrieved are not part of the value: raised
\* tells that an exception left the call instead of a value, cause names the
\* step that failed inside the call, retrieved is the number of results the
\* retriever returned (-1 when it was not reached).
Result(op, coll, count, answer, sources, context, error, mode, cause) ==
    [op |-> op, coll |-> coll, count |-> count, answer |-> answer,
     sources |-> sources, context_used |-> context, error |-> error,
     mode |-> mode, raised |-> FALSE, cause |-> cause, retrieved |-> -1]

NoResult ==
    Result("none", DefaultCollection, None, None, <<>>, <<>>, None, "none", "none")

Reraised(op, coll, cause) ==
    [Result(op, coll, None, None, <<>>, <<>>, None, "none", cause)
        EXCEPT !.raised = TRUE]

\* process_document: return None, error_msg (both except clauses and the two
\* early returns)
ProcessError(coll, msg, cause) ==
    Result("process_document", coll, None, None, <<>>, <<>>, Some(msg), "none",
           cause)

\* query: except Exception as e
QueryExceptWithPartial(coll, e, cause) ==
    Result("query", coll, None, Some(NoInfoAnswer), <<>>, <<>>,
           Some(<<"Error during query: ", e>>), "rag", cause)

QueryExceptReraise(coll, e, cause) == Reraised("query", coll, cause)

QueryExcept(coll, e, cause) ==
    Result("query", coll, None, None, <<>>, <<>>,
           Some(<<"Error during query: ", e>>), "rag", cause)

\* query: the dictionary built from pipeline.answer's result, error None
QueryReturn(coll, r) ==
    Result("query", coll, None, r.answer, r.sources, r.context_used, None,
           "rag", "none")

\* chat: except Exception as e
ChatExceptSwallow(e, cause) ==
    Result("chat", DefaultCollection, None, None, <<>>, <<>>, None, "llm", cause)

ChatExcept(e, cause) ==
    Result("chat", DefaultCollection, None, None, <<>>, <<>>,
           Some(<<"Error during chat: ", e>>), "llm", cause)

\* chat: the dictionary returned after generate
ChatReturn(text) ==
    Result("chat", DefaultCollection, None, text, <<>>, <<>>, None, "llm", "none")

\* The chunks a document splits into, and their embeddings. named is not
\* metadata of the chunk: it records the collection_name the call was given.
Chunks(file, n, named) ==
    [i \in 1..n |-> [source |-> file, page |-> i, named |-> named]]

\* embedding_manager.generate_embeddings(texts): one vector per text; "short"
\* is a backend that hands back one vector too few.
Embeddings(file, n, fail) ==
    [i \in 1..(IF fail = "short" THEN n - 1 ELSE n) |-> EncodeChunk(file, i)]

\* What can go wrong inside process_document: the file is missing, the
\* loader raises, the loader finds no content, the embedding backend raises
\* or hands back too few vectors, ChromaDB fails to open the collection or
\* rejects the batch.
ProcessFailures ==
    {"none", "notfound", "load", "empty", "embedding", "short", "open", "add"}

\* process_document(file_path, collection_name) on a document of n chunks,
\* with the failure fail happening (if its step is reached). target is the
\* name the VectorStore is constructed with.
ProcessInto(st, u, named, target, file, n, fail) ==
    LET docs == Chunks(file, n, named)
        embeddings == Embeddings(file, n, fail)
        opened == InitializeStore(st, target)
        added == AddDocuments(Records(opened, target), docs, embeddings, u,
                              fail # "add")
        after == [opened EXCEPT ![target].recs = added.recs]
        same(r) == [store |-> st, uuids |-> u, result |-> r]
    IN  IF fail = "notfound"
        THEN same(ProcessError(named, <<"File not found: ", file>>, "load"))
        ELSE IF fail = "load"
        THEN same(ProcessError(named,
                    <<"Error processing document: ", "load error">>, "load"))
        ELSE IF fail = "empty"
        THEN same(ProcessError(named, <<"No content extracted">>, "no_content"))
        ELSE IF n = 0
        THEN same(ProcessError(named,
                    <<"Document loaded but no text chunks created after splitting">>,
                    "no_chunks"))
        ELSE IF fail = "embedding"
        THEN same(ProcessError(named,
                    <<"Error processing document: ", "embedding error">>,
                    "embedding"))
        ELSE IF fail = "open"
        THEN same(ProcessError(named,
                    <<"Error processing document: ", "index error">>,
                    "index_open"))
        ELSE IF added.raised
        THEN [store |-> after,
              uuids |-> IF Len(docs) = Len(embeddings) THEN u + n ELSE u,
              result |-> ProcessError(named,
                    <<"Error processing document: ", added.err>>,
                    IF Len(docs) = Len(embeddings) THEN "index_add"
                    ELSE "mismatch")]
        ELSE [store |-> after, uuids |-> u + n,
              result |-> Result("process_document", named, Some(n), None, <<>>,
                                <<>>, None, "none", "none")]

ProcessDocumentIntoDefault(st, u, coll, file, n, fail) ==
    ProcessInto(st, u, coll, DefaultCollection, file, n, fail)

\* vector_store = VectorStore(collection_name=collection_name, ...)
ProcessDocument(st, u, coll, file, n, fail) ==
    ProcessInto(st, u, coll, coll, file, n, fail)

\* get_collection_stats(collection_name): the collection is opened and its
\* name and count() are returned; None when opening raises. The count is
\* carried in the result's count, None standing for the None returned.
GetCollectionStats(st, coll, fail) ==
    LET opened == InitializeStore(st, coll)
    IN  IF fail = "open"
        THEN [store |-> st,
              result |-> Result("get_collection_stats", coll, None, None, <<>>,
                                <<>>, None, "none", "index_open")]
        ELSE [store |-> opened,
              result |-> Result("get_collection_stats", coll,
                                Some(Cardinality(Records(opened, coll))), None,
                                <<>>, <<>>, None, "none", "none")]

\* if not question
QuestionIsEmptyUnstripped(question) == ~Truthy(question)

\* if not question or not question.strip()
QuestionIsEmpty(question) == ~Truthy(question) \/ Strip(question.val) = <<>>

\* top_k = config.TOP_K_RESULTS if top_k is None else top_k
EffectiveTopKUnlessNone(top_k) ==
    IF top_k.some THEN top_k.val ELSE TOP_K_RESULTS

\* top_k = top_k or config.TOP_K_RESULTS
EffectiveTopK(top_k) ==
    IF top_k.some /\ top_k.val # 0 THEN top_k.val ELSE TOP_K_RESULTS

NoCall ==
    [op |-> "none", coll |-> DefaultCollection, results |-> <<>>, top_k |-> 0]

\* What can go wrong inside query before generation: ChromaDB fails to open
\* the collection, or retrieval (embedding the question, the index query)
\* raises.
QueryFailures == {"none", "open", "retrieve"}

\* query(question, collection_name, top_k) up to the point where
\* pipeline.answer either returns or enters llm.generate. Gives the store,
\* whether the call is finished, its result if so and the retrieval results
\* otherwise.
QueryBegin(st, question, coll, top_k, fail) ==
    LET opened == InitializeStore(st, coll)
        results == Retrieve(opened, coll, EncodeQuestion(question.val),
                            EffectiveTopK(top_k))
        done(s, r) == [store |-> s, done |-> TRUE, result |-> r, results |-> <<>>]
    IN  IF QuestionIsEmpty(question)
        THEN done(st, Result("query", coll, None, None, <<>>, <<>>,
                             Some(<<"Question cannot be empty">>), "none",
                             "none"))
        ELSE IF fail = "open"
        THEN done(st, QueryExcept(coll, "index error", "index_open"))
        ELSE IF fail = "retrieve"
        THEN done(opened, QueryExcept(coll, "retrieval error", "retrieve"))
        ELSE IF NoResults(results)
        THEN done(opened, [QueryReturn(coll, AnswerEmpty) EXCEPT !.retrieved = 0])
        ELSE [store |-> opened, done |-> FALSE, result |-> NoResult,
              results |-> results]

\* What the service call that waits in generate returns once generate has
\* ended in state g: the except clause when it raised, the normal return
\* with generate's value as the answer otherwise.
Finish(c, g) ==
    IF c.op = "query"
    THEN [(IF g.status = "raised" THEN QueryExcept(c.coll, g.err, "generation")
           ELSE QueryReturn(c.coll, AnswerWith(c.results, g.text)))
            EXCEPT !.retrieved = Len(c.results)]
    ELSE IF g.status = "raised" THEN ChatExcept(g.err, "generation")
         ELSE ChatReturn(g.text)

----------------------------------------------------------------------------
(* The service as a state machine: one call at a time.                     *)

\* The concurrent scenario is not running.
ConcOff ==
    [ipc |-> "off", qpc |-> "off", coll |-> DefaultCollection, docs |-> <<>>,
     embeddings |-> <<>>, i |-> 0, u |-> 0, pending |-> <<>>, before |-> {},
     question |-> None, top_k |-> None, seen |-> {}, hits |-> <<>>]

\* No browser session is running.
AppOff ==
    [phase |-> "off", session_id |-> <<>>, uploaded_files_info |-> <<>>,
     prompt |-> <<>>, use_rag |-> FALSE, route |-> "none", asked |-> 0,
     collection_name |-> None, use_session_collections |-> TRUE]

\* The concurrent counter scenario is not running.
RaceOff == [on |-> FALSE]

\* SessionService.__init__: self.sessions = {}
NoSessions == <<>>

NoLast == [op |-> "none", sid |-> <<>>, ret |-> None, n |-> 0]

\* The registry, the clock and the browser session are not part of the run.
RegistryOff ==
    /\ sessions = NoSessions
    /\ now = 0
    /\ issued = 0
    /\ destroyed = {}
    /\ dropped = {}
    /\ last = NoLast
    /\ app = AppOff
    /\ race = RaceOff

Init ==
    /\ store = EmptyStore
    /\ uuids = 0
    /\ pc = "idle"
    /\ call = NoCall
    /\ gen = GenIdle
    /\ result = NoResult
    /\ trace = <<>>
    /\ conc = ConcOff
    /\ RegistryOff

ProcessDocumentCall ==
    /\ pc = "idle"
    /\ \E coll \in CollNames, file \in Files, n \in 0..MaxChunks,
          fail \in ProcessFailures :
          /\ uuids + n <= MaxRecords
          /\ LET p == ProcessDocument(store, uuids, coll, file, n, fail)
             IN  /\ store' = p.store
                 /\ uuids' = p.uuids
                 /\ result' = p.result
    /\ gen' = GenIdle
    /\ UNCHANGED <<pc, call, trace, conc>>
    /\ UNCHANGED svars

\* query(question, collection_name, top_k)
Query(question, coll, top_k, fail) ==
    /\ pc = "idle"
    /\ LET q == QueryBegin(store, question, coll, top_k, fail)
       IN  /\ store' = q.store
           /\ IF q.done
              THEN /\ result' = q.result
                   /\ gen' = GenIdle
                   /\ UNCHANGED <<pc, call>>
              ELSE /\ pc' = "gen"
                   /\ call' = [op |-> "query", coll |-> coll,
                               results |-> q.results,
                               top_k |-> EffectiveTopK(top_k)]
                   /\ gen' = GenBegin(DEFAULT_MAX_RETRIES)
                   /\ result' = NoResult
    /\ UNCHANGED <<uuids, conc>>

\* chat(question): question[:50] raises TypeError on None, inside the try.
Chat(question) ==
    /\ pc = "idle"
    /\ IF ~question.some
       THEN /\ result' = ChatExcept("TypeError", "argument")
            /\ gen' = GenIdle
            /\ UNCHANGED <<pc, call>>
       ELSE /\ pc' = "gen"
            /\ call' = [NoCall EXCEPT !.op = "chat"]
            /\ gen' = GenBegin(DEFAULT_MAX_RETRIES)
            /\ result' = NoResult
    /\ UNCHANGED <<store, uuids, conc>>

\* One iteration of generate's loop on the response resp; when generate
\* ends, the waiting service call returns in the same step.
Generate(resp) ==
    /\ pc = "gen"
    /\ gen.status = "running"
    /\ LET g == GenStep(gen, resp)
       IN  /\ gen' = g
           /\ IF g.status = "running"
              THEN UNCHANGED <<pc, call, result>>
              ELSE /\ pc' = "idle"
                   /\ call' = NoCall
                   /\ result' = Finish(call, g)
    /\ UNCHANGED <<store, uuids, conc>>

QueryCall ==
    /\ \E question \in Questions, coll \in CollNames, top_k \in TopKs,
          fail \in QueryFailures : Query(question, coll, top_k, fail)
    /\ UNCHANGED trace
    /\ UNCHANGED svars

ChatCall ==
    /\ \E question \in Questions : Chat(question)
    /\ UNCHANGED trace
    /\ UNCHANGED svars

GenAttempt ==
    /\ \E resp \in Responses : Generate(resp)
    /\ UNCHANGED trace
    /\ UNCHANGED svars

\* delete_collection(collection_name)
DeleteCollectionCall ==
    /\ pc = "idle"
    /\ \E coll \in CollNames :
          /\ store' = ClearCollection(InitializeStore(store, coll), coll)
          /\ result' = Result("delete_collection", coll, None, None, <<>>, <<>>,
                              None, "none", "none")
    /\ gen' = GenIdle
    /\ UNCHANGED <<uuids, pc, call, trace, conc>>
    /\ UNCHANGED svars

Next ==
    \/ ProcessDocumentCall
    \/ QueryCall
    \/ ChatCall
    \/ GenAttempt
    \/ DeleteCollectionCall

Spec == Init /\ [][Next]_vars

----------------------------------------------------------------------------
(* The generation client with its history: the same calls, over an index   *)
(* that already holds a document, recording what every attempt met.        *)

\* What an attempt met, by the fields of the response alone.
ResponseClass(resp) ==
    IF resp.kind = "exception" THEN "transport"
    ELSE IF resp.kind = "nocandidates" THEN "other"
    ELSE IF resp.finish_reason = SAFETY THEN "safety"
    ELSE IF resp.finish_reason = RECITATION THEN "recitation"
    ELSE IF resp.finish_reason = MAX_TOKENS
    THEN IF Truthy(resp.text) THEN "max_tokens_text" ELSE "max_tokens_notext"
    ELSE IF resp.finish_reason = STOP /\ Truthy(resp.text) THEN "stop_text"
    ELSE IF resp.finish_reason = 0 /\ Truthy(resp.text) THEN "unspecified_text"
    ELSE "other"

TextClasses == {"max_tokens_text", "stop_text", "unspecified_text"}

TraceEntry(resp) ==
    [class |-> ResponseClass(resp),
     text |-> IF ResponseClass(resp) \in TextClasses THEN resp.text.val ELSE <<>>]

InitGen ==
    /\ \E n \in 1..MaxChunks :
          /\ store = ProcessDocument(EmptyStore, 0, DefaultCollection, "a.pdf", n,
                                     "none").store
          /\ uuids = n
    /\ pc = "idle"
    /\ call = NoCall
    /\ gen = GenIdle
    /\ result = NoResult
    /\ trace = <<>>
    /\ conc = ConcOff
    /\ RegistryOff

QueryCallTraced ==
    /\ \E question \in Questions, coll \in CollNames, top_k \in TopKs,
          fail \in QueryFailures : Query(question, coll, top_k, fail)
    /\ trace' = <<>>
    /\ UNCHANGED svars

ChatCallTraced ==
    /\ \E question \in Questions : Chat(question)
    /\ trace' = <<>>
    /\ UNCHANGED svars

GenAttemptTraced ==
    \E resp \in Responses :
        /\ Generate(resp)
        /\ trace' = Append(trace, TraceEntry(resp))
        /\ UNCHANGED svars

NextGen ==
    \/ QueryCallTraced
    \/ ChatCallTraced
    \/ GenAttemptTraced

SpecGen == InitGen /\ [][NextGen]_vars

----------------------------------------------------------------------------
(* An upload and a query running concurrently on one collection: the tail  *)
(* of process_document (VectorStore(...), add_documents) in one thread,    *)
(* query's VectorStore(...) and retrieval in another. Each step is one     *)
(* call into ChromaDB or one iteration of add_documents' loop.             *)

InitConc ==
    /\ \E sid \in SessionIds, pre \in 0..MaxChunks, n \in 1..MaxChunks,
          question \in {Some(<<"ch">>), Some(<<"ch", "ch">>)}, top_k \in TopKs :
          LET coll == CollectionName(sid)
              st == ProcessDocument(EmptyStore, 0, coll, "a.pdf", pre, "none").store
          IN  /\ store = st
              /\ uuids = pre
              /\ conc = [ipc |-> "start", qpc |-> "start", coll |-> coll,
                         docs |-> Chunks("a.pdf", n, coll),
                         embeddings |-> Embeddings("a.pdf", n, "none"),
                         i |-> 1, u |-> pre, pending |-> <<>>,
                         before |-> Records(st, coll),
                         question |-> question, top_k |-> top_k,
                         seen |-> {}, hits |-> <<>>]
    /\ pc = "idle"
    /\ call = NoCall
    /\ gen = GenIdle
    /\ result = NoResult
    /\ trace = <<>>
    /\ RegistryOff

\* process_document: vector_store = VectorStore(collection_name=...)
InsertOpen ==
    /\ conc.ipc = "start"
    /\ store' = InitializeStore(store, conc.coll)
    /\ conc' = [conc EXCEPT !.ipc = "loop"]
    /\ UNCHANGED <<uuids, pc, call, gen, result, trace>>
    /\ UNCHANGED svars

\* add_documents: one iteration of the for loop
InsertLoop ==
    /\ conc.ipc = "loop"
    /\ conc.i <= Len(conc.docs)
    /\ LET b == LoopBody(Records(store, conc.coll), conc.pending,
                         MakeRecord(conc.u + conc.i - 1, conc.i - 1,
                                    conc.docs[conc.i], conc.embeddings[conc.i]))
       IN  /\ store' = [store EXCEPT ![conc.coll].recs = b.recs]
           /\ conc' = [conc EXCEPT !.pending = b.pending, !.i = @ + 1]
    /\ uuids' = uuids + 1
    /\ UNCHANGED <<pc, call, gen, result, trace>>
    /\ UNCHANGED svars

\* add_documents: self.collection.add(...) after the loop
InsertAdd ==
    /\ conc.ipc = "loop"
    /\ conc.i > Len(conc.docs)
    /\ \E ok \in BOOLEAN :
          LET a == CollectionAdd(Records(store, conc.coll), conc.pending, ok)
          IN  store' = [store EXCEPT ![conc.coll].recs = a.recs]
    /\ conc' = [conc EXCEPT !.ipc = "done"]
    /\ UNCHANGED <<uuids, pc, call, gen, result, trace>>
    /\ UNCHANGED svars

\* query: vector_store = VectorStore(collection_name=...)
QueryOpen ==
    /\ conc.qpc = "start"
    /\ store' = InitializeStore(store, conc.coll)
    /\ conc' = [conc EXCEPT !.qpc = "opened"]
    /\ UNCHANGED <<uuids, pc, call, gen, result, trace>>
    /\ UNCHANGED svars

\* query: the retriever's self.collection.query(...); seen is the set of
\* records the call ranks.
QueryRun ==
    /\ conc.qpc = "opened"
    /\ conc' = [conc EXCEPT
                  !.qpc = "done",
                  !.seen = Records(store, conc.coll),
                  !.hits = VectorStoreQuery(store, conc.coll,
                                            EncodeQuestion(conc.question.val),
                                            EffectiveTopK(conc.top_k))]
    /\ UNCHANGED <<store, uuids, pc, call, gen, result, trace>>
    /\ UNCHANGED svars

NextConc ==
    \/ InsertOpen
    \/ InsertLoop
    \/ InsertAdd
    \/ QueryOpen
    \/ QueryRun

SpecConc == InitConc /\ [][NextConc]_vars

----------------------------------------------------------------------------
(* SessionService (src/services/session_service.py).                       *)

MaxSessions == 2     \* most sessions created over a behaviour
MaxNow == 62         \* the clock stops here
MaxCalls == 4        \* most registry calls over a behaviour

SESSION_TIMEOUT_MINUTES == 30

\* How long the clock advances between two calls, in minutes.
Delays == {30, 31}

\* The chunk counts an upload is recorded with.
DocCounts == {1, 2}

HexDigits ==
    <<"0", "1", "2", "3", "4", "5", "6", "7",
      "8", "9", "a", "b", "c", "d", "e", "f">>

\* A draw that repeats the previous value.
Uuid4Repeating(n) == <<HexDigits[1], "-", HexDigits[1]>>

\* str(uuid.uuid4()), the n-th value drawn: hexadecimal groups separated by
\* hyphens, each draw different from the ones before.
Uuid4(n) == <<HexDigits[(n % 16) + 1], "-", HexDigits[((n \div 16) % 16) + 1]>>

\* The ids create_session can hand out within the bound, and the ids a caller
\* may pass: those and one that was never issued.
IssuableIds == {Uuid4(n) : n \in 1..MaxSessions}
UnknownId == <<"f", "-", "f">>
CallerIds == IssuableIds \cup {UnknownId}

\* The directory of the vector store over the sessions' collections.
SessionStore ==
    [c \in {CollectionName(sid) : sid \in IssuableIds} \cup {DefaultCollection}
        |-> NoCollection]

\* dict.update(other), for keys the dictionary already has
DictUpdate(d, other) ==
    [k \in DOMAIN d |-> IF k \in DOMAIN other THEN other[k] ELSE d[k]]

\* self.sessions[key] = value
SetItem(ss, key, value) ==
    [k \in DOMAIN ss \cup {key} |-> IF k = key THEN value ELSE ss[k]]

\* del self.sessions[key]
DelItem(ss, key) == [k \in DOMAIN ss \ {key} |-> ss[k]]

\* The dictionary create_session stores for a new session.
NewSession(session_id, t) ==
    [session_id |-> session_id,
     collection_name |-> CollectionName(session_id),
     created_at |-> t,
     last_activity |-> t,
     document_count |-> 0,
     query_count |-> 0,
     uploaded_files |-> <<>>]

\* create_session(), drawing session_id; returns the id.
CreateSession(ss, session_id, t) ==
    [sessions |-> SetItem(ss, session_id, NewSession(session_id, t)),
     ret |-> Some(session_id)]

\* A lookup that leaves last_activity alone.
GetSessionWithoutTouch(ss, session_id, t) ==
    IF session_id \notin DOMAIN ss
    THEN [sessions |-> ss, ret |-> None]
    ELSE [sessions |-> ss, ret |-> Some(ss[session_id])]

\* get_session(session_id): None for an unknown id, otherwise the session,
\* whose last_activity is set to now.
GetSession(ss, session_id, t) ==
    IF session_id \notin DOMAIN ss
    THEN [sessions |-> ss, ret |-> None]
    ELSE LET u == [ss EXCEPT ![session_id].last_activity = t]
         IN  [sessions |-> u, ret |-> Some(u[session_id])]

\* update_session(session_id, **kwargs)
UpdateSession(ss, session_id, kwargs, t) ==
    IF session_id \in DOMAIN ss
    THEN [ss EXCEPT ![session_id] =
            [DictUpdate(@, kwargs) EXCEPT !.last_activity = t]]
    ELSE ss

\* An add_file_to_session that puts the new entry first.
AddFileToSessionPrepending(ss, session_id, filename, doc_count, t) ==
    IF session_id \in DOMAIN ss
    THEN [ss EXCEPT
            ![session_id].uploaded_files =
                <<[filename |-> filename, uploaded_at |-> t,
                   document_count |-> doc_count]>> \o @,
            ![session_id].document_count = @ + doc_count]
    ELSE ss

\* add_file_to_session(session_id, filename, doc_count)
AddFileToSession(ss, session_id, filename, doc_count, t) ==
    IF session_id \in DOMAIN ss
    THEN [ss EXCEPT
            ![session_id].uploaded_files =
                Append(@, [filename |-> filename, uploaded_at |-> t,
                           document_count |-> doc_count]),
            ![session_id].document_count = @ + doc_count]
    ELSE ss

\* An increment_query_count that only records the activity.
IncrementQueryCountTouchOnly(ss, session_id, t) ==
    IF session_id \in DOMAIN ss
    THEN [ss EXCEPT ![session_id].last_activity = t]
    ELSE ss

\* increment_query_count(session_id)
IncrementQueryCount(ss, session_id, t) ==
    IF session_id \in DOMAIN ss
    THEN [ss EXCEPT ![session_id].query_count = @ + 1,
                    ![session_id].last_activity = t]
    ELSE ss

\* An expiry test that also expires a session exactly at the timeout.
IsSessionExpiredInclusive(ss, session_id, t) ==
    \/ session_id \notin DOMAIN ss
    \/ t - ss[session_id].last_activity >= SESSION_TIMEOUT_MINUTES

\* An expiry test that takes an unknown id for a live session.
IsSessionExpiredKnownOnly(ss, session_id, t) ==
    /\ session_id \in DOMAIN ss
    /\ t - ss[session_id].last_activity > SESSION_TIMEOUT_MINUTES

\* is_session_expired(session_id)
IsSessionExpired(ss, session_id, t) ==
    \/ session_id \notin DOMAIN ss
    \/ t - ss[session_id].last_activity > SESSION_TIMEOUT_MINUTES

RECURSIVE DelAll(_, _)
DelAll(ss, ids) ==
    IF ids = {} THEN ss
    ELSE LET sid == CHOOSE x \in ids : TRUE
         IN  DelAll(DelItem(ss, sid), ids \ {sid})

\* cleanup_expired_sessions(): the expired ids (a list without repetitions,
\* given here as a set) and the registry without them.
CleanupExpiredSessions(ss, t) ==
    LET expired == {sid \in DOMAIN ss : IsSessionExpired(ss, sid, t)}
    IN  [sessions |-> DelAll(ss, expired), ret |-> expired]

\* get_collection_name(session_id)
GetCollectionName(ss, session_id, t) ==
    LET g == GetSession(ss, session_id, t)
    IN  [sessions |-> g.sessions,
         ret |-> IF g.ret.some THEN Some(g.ret.val.collection_name) ELSE None]

\* get_session_stats(session_id); the two isoformat() strings are given as
\* the times they print.
GetSessionStats(ss, session_id, t) ==
    LET g == GetSession(ss, session_id, t)
    IN  [sessions |-> g.sessions,
         ret |-> IF ~g.ret.some THEN None
                 ELSE Some([session_id |-> session_id,
                            created_at |-> g.ret.val.created_at,
                            last_activity |-> g.ret.val.last_activity,
                            document_count |-> g.ret.val.document_count,
                            query_count |-> g.ret.val.query_count,
                            files_uploaded |-> Len(g.ret.val.uploaded_files),
                            active |-> ~IsSessionExpired(g.sessions,
                                                         session_id, t)])]

\* delete_session(session_id)
DeleteSession(ss, session_id) ==
    IF session_id \in DOMAIN ss
    THEN [sessions |-> DelItem(ss, session_id), ret |-> TRUE]
    ELSE [sessions |-> ss, ret |-> FALSE]

----------------------------------------------------------------------------
(* The registry as a state machine: its callers invoke one operation at a  *)
(* time, and the clock advances between calls.                             *)

\* The keyword arguments update_session is called with.
UpdateKwargs ==
    {[collection_name |-> CollectionName(Uuid4(1))], [query_count |-> 0]}

\* The record of a registry call: n counts the calls made so far.
Called(op, sid, ret) == [op |-> op, sid |-> sid, ret |-> ret, n |-> last.n + 1]

\* Everything but the registry, the clock and the call record stays as it is.
RegistryFrame ==
    UNCHANGED <<store, uuids, pc, call, gen, result, trace, conc, dropped,
                app, race>>

InitSess ==
    /\ store = SessionStore
    /\ uuids = 0
    /\ pc = "idle"
    /\ call = NoCall
    /\ gen = GenIdle
    /\ result = NoResult
    /\ trace = <<>>
    /\ conc = ConcOff
    /\ sessions = NoSessions
    /\ now = 0
    /\ issued = 0
    /\ destroyed = {}
    /\ dropped = {}
    /\ last = NoLast
    /\ app = AppOff
    /\ race = RaceOff

Tick ==
    /\ \E d \in Delays :
          /\ now + d <= MaxNow
          /\ now' = now + d
    /\ UNCHANGED <<sessions, issued, destroyed, last>>
    /\ RegistryFrame

CreateSessionCall ==
    /\ last.n < MaxCalls
    /\ issued < MaxSessions
    /\ LET c == CreateSession(sessions, Uuid4(issued + 1), now)
       IN  /\ sessions' = c.sessions
           /\ last' = Called("create_session", <<>>, c.ret)
    /\ issued' = issued + 1
    /\ UNCHANGED <<now, destroyed>>
    /\ RegistryFrame

GetSessionCall ==
    /\ last.n < MaxCalls
    /\ \E sid \in CallerIds :
          LET g == GetSession(sessions, sid, now)
          IN  /\ sessions' = g.sessions
              /\ last' = Called("get_session", sid, g.ret)
    /\ UNCHANGED <<now, issued, destroyed>>
    /\ RegistryFrame

GetCollectionNameCall ==
    /\ last.n < MaxCalls
    /\ \E sid \in CallerIds :
          LET g == GetCollectionName(sessions, sid, now)
          IN  /\ sessions' = g.sessions
              /\ last' = Called("get_collection_name", sid, g.ret)
    /\ UNCHANGED <<now, issued, destroyed>>
    /\ RegistryFrame

GetSessionStatsCall ==
    /\ last.n < MaxCalls
    /\ \E sid \in CallerIds :
          LET g == GetSessionStats(sessions, sid, now)
          IN  /\ sessions' = g.sessions
              /\ last' = Called("get_session_stats", sid, g.ret)
    /\ UNCHANGED <<now, issued, destroyed>>
    /\ RegistryFrame

UpdateSessionCall ==
    /\ last.n < MaxCalls
    /\ \E sid \in CallerIds, kwargs \in UpdateKwargs :
          /\ sessions' = UpdateSession(sessions, sid, kwargs, now)
          /\ last' = Called("update_session", sid, None)
    /\ UNCHANGED <<now, issued, destroyed>>
    /\ RegistryFrame

AddFileToSessionCall ==
    /\ last.n < MaxCalls
    /\ \E sid \in CallerIds, file \in Files, n \in DocCounts :
          /\ sessions' = AddFileToSession(sessions, sid, file, n, now)
          /\ last' = Called("add_file_to_session", sid, Some(n))
    /\ UNCHANGED <<now, issued, destroyed>>
    /\ RegistryFrame

IncrementQueryCountCall ==
    /\ last.n < MaxCalls
    /\ \E sid \in CallerIds :
          /\ sessions' = IncrementQueryCount(sessions, sid, now)
          /\ last' = Called("increment_query_count", sid, None)
    /\ UNCHANGED <<now, issued, destroyed>>
    /\ RegistryFrame

\* is_session_expired(session_id) called directly: it assigns nothing.
IsSessionExpiredCall ==
    /\ last.n < MaxCalls
    /\ \E sid \in CallerIds :
          last' = Called("is_session_expired", sid,
                         Some(IsSessionExpired(sessions, sid, now)))
    /\ UNCHANGED <<sessions, now, issued, destroyed>>
    /\ RegistryFrame

CleanupExpiredSessionsCall ==
    /\ last.n < MaxCalls
    /\ LET c == CleanupExpiredSessions(sessions, now)
       IN  /\ sessions' = c.sessions
           /\ destroyed' = destroyed \cup c.ret
           /\ last' = Called("cleanup_expired_sessions", <<>>, Some(c.ret))
    /\ UNCHANGED <<now, issued>>
    /\ RegistryFrame

DeleteSessionCall ==
    /\ last.n < MaxCalls
    /\ \E sid \in CallerIds :
          LET d == DeleteSession(sessions, sid)
          IN  /\ sessions' = d.sessions
              /\ destroyed' = IF d.ret THEN destroyed \cup {sid} ELSE destroyed
              /\ last' = Called("delete_session", sid, Some(d.ret))
    /\ UNCHANGED <<now, issued>>
    /\ RegistryFrame

NextSess ==
    \/ Tick
    \/ CreateSessionCall
    \/ GetSessionCall
    \/ GetCollectionNameCall
    \/ GetSessionStatsCall
    \/ UpdateSessionCall
    \/ AddFileToSessionCall
    \/ IncrementQueryCountCall
    \/ IsSessionExpiredCall
    \/ CleanupExpiredSessionsCall
    \/ DeleteSessionCall

SpecSess == InitSess /\ [][NextSess]_vars

----------------------------------------------------------------------------
(* Several threads recording queries and uploads on one session. The       *)
(* registry takes no lock, and `d[k] += v` is a read of d[k] followed by a *)
(* store to d[k]: another thread can run between the two.                  *)

MaxThreads == 2      \* threads calling the registry at once

Threads == 1..MaxThreads

\* What a thread is asked to do: record a query, or an upload of n chunks.
ThreadOps ==
    {[op |-> "increment_query_count", n |-> 1]}
    \cup {[op |-> "add_file_to_session", n |-> n] : n \in DocCounts}

\* The key the operation adds to.
CounterOf(op) ==
    IF op = "increment_query_count" THEN "query_count" ELSE "document_count"

InitRace ==
    /\ store = SessionStore
    /\ uuids = 0
    /\ pc = "idle"
    /\ call = NoCall
    /\ gen = GenIdle
    /\ result = NoResult
    /\ trace = <<>>
    /\ conc = ConcOff
    /\ sessions = CreateSession(NoSessions, Uuid4(1), 0).sessions
    /\ now = 0
    /\ issued = 1
    /\ destroyed = {}
    /\ dropped = {}
    /\ last = NoLast
    /\ app = AppOff
    /\ \E ops \in [Threads -> ThreadOps] :
          race = [on |-> TRUE, sid |-> Uuid4(1),
                  threads |-> [t \in Threads |->
                                 [op |-> ops[t].op, n |-> ops[t].n,
                                  at |-> "start", value |-> 0]]]

RaceFrame ==
    UNCHANGED <<store, uuids, pc, call, gen, result, trace, conc, now, issued,
                destroyed, dropped, last, app>>

\* add_file_to_session: if session_id in self.sessions, then
\* self.sessions[session_id]["uploaded_files"].append({...})
RaceAppend(t) ==
    LET th == race.threads[t]
    IN  /\ th.at = "start"
        /\ th.op = "add_file_to_session"
        /\ race.sid \in DOMAIN sessions
        /\ sessions' = [sessions EXCEPT ![race.sid].uploaded_files =
                          Append(@, [filename |-> "a.pdf", uploaded_at |-> now,
                                     document_count |-> th.n])]
        /\ race' = [race EXCEPT !.threads[t].at = "appended"]
        /\ RaceFrame

\* `... += v`, first half: the current value of the counter is read.
RaceRead(t) ==
    LET th == race.threads[t]
    IN  /\ \/ th.at = "start" /\ th.op = "increment_query_count"
           \/ th.at = "appended"
        /\ race.sid \in DOMAIN sessions
        /\ race' = [race EXCEPT
                      !.threads[t].at = "read",
                      !.threads[t].value = sessions[race.sid][CounterOf(th.op)]]
        /\ UNCHANGED sessions
        /\ RaceFrame

\* `... += v`, second half: the value read plus v is stored.
RaceWrite(t) ==
    LET th == race.threads[t]
    IN  /\ th.at = "read"
        /\ sessions' = [sessions EXCEPT
                          ![race.sid][CounterOf(th.op)] = th.value + th.n]
        /\ race' = [race EXCEPT
                      !.threads[t].at =
                          IF th.op = "increment_query_count" THEN "written"
                          ELSE "done"]
        /\ RaceFrame

\* increment_query_count: self.sessions[session_id]["last_activity"] = now
RaceTouch(t) ==
    LET th == race.threads[t]
    IN  /\ th.at = "written"
        /\ sessions' = [sessions EXCEPT ![race.sid].last_activity = now]
        /\ race' = [race EXCEPT !.threads[t].at = "done"]
        /\ RaceFrame

NextRace ==
    \/ \E t \in Threads : RaceAppend(t)
    \/ \E t \in Threads : RaceRead(t)
    \/ \E t \in Threads : RaceWrite(t)
    \/ \E t \in Threads : RaceTouch(t)

SpecRace == InitRace /\ [][NextRace]_vars

----------------------------------------------------------------------------
(* cleanup_expired_sessions running in one thread while other threads call *)
(* the registry. The registry takes no lock: another thread's call can run *)
(* between two iterations of the list comprehension, between the           *)
(* comprehension and the deleting loop, and between two deletions.         *)

\* The keys of self.sessions in insertion order, among the first n issued.
RECURSIVE KeysUpTo(_, _)
KeysUpTo(ss, n) ==
    IF n = 0 THEN <<>>
    ELSE KeysUpTo(ss, n - 1)
           \o (IF Uuid4(n) \in DOMAIN ss THEN <<Uuid4(n)>> ELSE <<>>)

\* The sweep has not been called.
SweepIdle ==
    [on |-> TRUE, at |-> "idle", keys |-> <<>>, i |-> 0, expired |-> <<>>,
     err |-> "none"]

\* `for sid in self.sessions`: the iterator is created over the keys there
\* are now.
SweepIter(ss, n) ==
    [SweepIdle EXCEPT !.at = "testing", !.keys = KeysUpTo(ss, n), !.i = 1]

\* One step of the comprehension: next() on the dictionary's iterator, which
\* raises RuntimeError when the dictionary has changed size since the
\* iterator was created, and then `if self.is_session_expired(sid)`.
SweepNext(sw, ss, t) ==
    IF Cardinality(DOMAIN ss) # Len(sw.keys)
    THEN [sw EXCEPT !.at = "raised", !.err = "RuntimeError"]
    ELSE IF sw.i > Len(sw.keys)
    THEN [sw EXCEPT !.at = "deleting", !.i = 1]
    ELSE [sw EXCEPT !.i = @ + 1,
                    !.expired = IF IsSessionExpired(ss, sw.keys[sw.i], t)
                                THEN Append(@, sw.keys[sw.i]) ELSE @]

\* One iteration of `for sid in expired: del self.sessions[sid]`, or the
\* return after the last; del raises KeyError for a key that is gone.
SweepDel(sw, ss) ==
    IF sw.i > Len(sw.expired)
    THEN [sweep |-> [sw EXCEPT !.at = "returned"], sessions |-> ss]
    ELSE IF sw.expired[sw.i] \notin DOMAIN ss
    THEN [sweep |-> [sw EXCEPT !.at = "raised", !.err = "KeyError"],
          sessions |-> ss]
    ELSE [sweep |-> [sw EXCEPT !.i = @ + 1],
          sessions |-> DelItem(ss, sw.expired[sw.i])]

SweepFrame ==
    UNCHANGED <<store, uuids, pc, call, gen, result, trace, conc, now, issued,
                dropped, last, app>>

\* Every session the bound allows was created at time 0.
InitSweep ==
    /\ store = SessionStore
    /\ uuids = 0
    /\ pc = "idle"
    /\ call = NoCall
    /\ gen = GenIdle
    /\ result = NoResult
    /\ trace = <<>>
    /\ conc = ConcOff
    /\ sessions = [sid \in IssuableIds |-> NewSession(sid, 0)]
    /\ now = 0
    /\ issued = MaxSessions
    /\ destroyed = {}
    /\ dropped = {}
    /\ last = NoLast
    /\ app = AppOff
    /\ race = SweepIdle

\* cleanup_expired_sessions() is entered.
SweepBegin ==
    /\ race.at = "idle"
    /\ race' = SweepIter(sessions, issued)
    /\ UNCHANGED <<sessions, destroyed>>
    /\ SweepFrame

SweepTest ==
    /\ race.at = "testing"
    /\ race' = SweepNext(race, sessions, now)
    /\ UNCHANGED <<sessions, destroyed>>
    /\ SweepFrame

SweepDelete ==
    /\ race.at = "deleting"
    /\ LET d == SweepDel(race, sessions)
       IN  /\ race' = d.sweep
           /\ sessions' = d.sessions
           /\ destroyed' = destroyed \cup (DOMAIN sessions \ DOMAIN d.sessions)
    /\ SweepFrame

\* The other threads' calls run whole between two steps of the sweep.
NextSweep ==
    \/ SweepBegin
    \/ SweepTest
    \/ SweepDelete
    \/ Tick
    \/ GetSessionCall
    \/ IncrementQueryCountCall
    \/ DeleteSessionCall

SpecSweep == InitSweep /\ [][NextSweep]_vars

----------------------------------------------------------------------------
(* QueryClassifier (src/src/query_classifier.py). A query is a sequence of *)
(* characters, the blank written "sp".                                     *)

UpperLetters ==
    <<"A", "B", "C", "D", "E", "F", "G", "H", "I", "J", "K", "L", "M",
      "N", "O", "P", "Q", "R", "S", "T", "U", "V", "W", "X", "Y", "Z">>
LowerLetters ==
    <<"a", "b", "c", "d", "e", "f", "g", "h", "i", "j", "k", "l", "m",
      "n", "o", "p", "q", "r", "s", "t", "u", "v", "w", "x", "y", "z">>

\* A lower() that leaves the query as typed.
LowerKeepingCase(s) == s

\* str.lower()
Lower(s) ==
    [i \in 1..Len(s) |->
        IF \E k \in 1..26 : UpperLetters[k] = s[i]
        THEN LowerLetters[CHOOSE k \in 1..26 : UpperLetters[k] = s[i]]
        ELSE s[i]]

\* str.upper()
Upper(s) ==
    [i \in 1..Len(s) |->
        IF \E k \in 1..26 : LowerLetters[k] = s[i]
        THEN UpperLetters[CHOOSE k \in 1..26 : LowerLetters[k] = s[i]]
        ELSE s[i]]

\* Python's `needle in haystack` on strings
In(needle, haystack) ==
    \E i \in 0..(Len(haystack) - Len(needle)) :
        SubSeq(haystack, i + 1, i + Len(needle)) = needle

RAG_TRIGGERS ==
    <<
      <<"s", "e", "a", "r", "c", "h", "sp", "f", "r", "o", "m", "sp", "p",
        "d", "f">>,
      <<"s", "e", "a", "r", "c", "h", "sp", "f", "r", "o", "m", "sp", "d",
        "o", "c", "u", "m", "e", "n", "t">>,
      <<"s", "e", "a", "r", "c", "h", "sp", "t", "h", "e", "sp", "p", "d",
        "f">>,
      <<"s", "e", "a", "r", "c", "h", "sp", "i", "n", "sp", "d", "o", "c",
        "u", "m", "e", "n", "t">>,
      <<"s", "e", "a", "r", "c", "h", "sp", "i", "n", "sp", "p", "d", "f">>,
      <<"s", "e", "a", "r", "c", "h", "sp", "t", "h", "i", "s", "sp", "d",
        "o", "c", "u", "m", "e", "n", "t">>,
      <<"f", "r", "o", "m", "sp", "t", "h", "i", "s", "sp", "s", "o", "u",
        "r", "c", "e">>,
      <<"f", "r", "o", "m", "sp", "t", "h", "e", "sp", "s", "o", "u", "r",
        "c", "e">>,
      <<"f", "r", "o", "m", "sp", "t", "h", "i", "s", "sp", "p", "d", "f">>,
      <<"f", "r", "o", "m", "sp", "t", "h", "e", "sp", "d", "o", "c", "u",
        "m", "e", "n", "t">>,
      <<"f", "r", "o", "m", "sp", "t", "h", "i", "s", "sp", "d", "o", "c",
        "u", "m", "e", "n", "t">>,
      <<"i", "n", "sp", "t", "h", "i", "s", "sp", "p", "d", "f">>,
      <<"i", "n", "sp", "t", "h", "e", "sp", "d", "o", "c", "u", "m", "e",
        "n", "t">>,
      <<"i", "n", "sp", "t", "h", "i", "s", "sp", "d", "o", "c", "u", "m",
        "e", "n", "t">>,
      <<"a", "c", "c", "o", "r", "d", "i", "n", "g", "sp", "t", "o", "sp",
        "t", "h", "e", "sp", "d", "o", "c", "u", "m", "e", "n", "t">>,
      <<"a", "c", "c", "o", "r", "d", "i", "n", "g", "sp", "t", "o", "sp",
        "t", "h", "e", "sp", "p", "d", "f">>,
      <<"w", "h", "a", "t", "sp", "d", "o", "e", "s", "sp", "t", "h", "e",
        "sp", "d", "o", "c", "u", "m", "e", "n", "t", "sp", "s", "a", "y">>,
      <<"w", "h", "a", "t", "sp", "d", "o", "e", "s", "sp", "t", "h", "e",
        "sp", "p", "d", "f", "sp", "s", "a", "y">>,
      <<"c", "h", "e", "c", "k", "sp", "t", "h", "e", "sp", "p", "d", "f">>,
      <<"c", "h", "e", "c", "k", "sp", "t", "h", "e", "sp", "d", "o", "c",
        "u", "m", "e", "n", "t">>,
      <<"c", "h", "e", "c", "k", "sp", "t", "h", "i", "s", "sp", "d", "o",
        "c", "u", "m", "e", "n", "t">>,
      <<"l", "o", "o", "k", "sp", "i", "n", "sp", "t", "h", "e", "sp", "d",
        "o", "c", "u", "m", "e", "n", "t">>,
      <<"l", "o", "o", "k", "sp", "i", "n", "sp", "t", "h", "e", "sp", "p",
        "d", "f">>,
      <<"f", "i", "n", "d", "sp", "i", "n", "sp", "d", "o", "c", "u", "m",
        "e", "n", "t">>,
      <<"f", "i", "n", "d", "sp", "i", "n", "sp", "p", "d", "f">>,
      <<"r", "e", "t", "r", "i", "e", "v", "e", "sp", "f", "r", "o", "m",
        "sp", "d", "o", "c", "u", "m", "e", "n", "t">>,
      <<"g", "e", "t", "sp", "f", "r", "o", "m", "sp", "d", "o", "c", "u",
        "m", "e", "n", "t">>,
      <<"e", "x", "t", "r", "a", "c", "t", "sp", "f", "r", "o", "m", "sp",
        "d", "o", "c", "u", "m", "e", "n", "t">>,
      <<"b", "a", "s", "e", "d", "sp", "o", "n", "sp", "t", "h", "e", "sp",
        "d", "o", "c", "u", "m", "e", "n", "t">>,
      <<"b", "a", "s", "e", "d", "sp", "o", "n", "sp", "t", "h", "i", "s",
        "sp", "p", "d", "f">>,
      <<"a", "s", "sp", "p", "e", "r", "sp", "t", "h", "e", "sp", "d", "o",
        "c", "u", "m", "e", "n", "t">>,
      <<"a", "s", "sp", "m", "e", "n", "t", "i", "o", "n", "e", "d", "sp",
        "i", "n">>,
      <<"t", "e", "l", "l", "sp", "m", "e", "sp", "f", "r", "o", "m", "sp",
        "t", "h", "e", "sp", "d", "o", "c", "u", "m", "e", "n", "t">>,
      <<"w", "h", "a", "t", "'", "s", "sp", "i", "n", "sp", "t", "h", "e",
        "sp", "d", "o", "c", "u", "m", "e", "n", "t">>,
      <<"d", "o", "c", "u", "m", "e", "n", "t", "sp", "s", "a", "y", "s">>,
      <<"p", "d", "f", "sp", "s", "a", "y", "s">>,
      <<"s", "o", "u", "r", "c", "e", "sp", "m", "a", "t", "e", "r", "i",
        "a", "l">>,
      <<"u", "p", "l", "o", "a", "d", "e", "d", "sp", "f", "i", "l", "e">>,
      <<"m", "y", "sp", "d", "o", "c", "u", "m", "e", "n", "t">>,
      <<"t", "h", "e", "sp", "f", "i", "l", "e">>,
      <<"f", "r", "o", "m", "sp", "u", "p", "l", "o", "a", "d", "e", "d">>,
      <<"i", "n", "sp", "u", "p", "l", "o", "a", "d", "e", "d">>,
      <<"w", "h", "a", "t", "'", "s", "sp", "i", "n", "sp", "m", "y", "sp",
        "p", "d", "f">>,
      <<"i", "n", "f", "o", "r", "m", "a", "t", "i", "o", "n", "sp", "f",
        "r", "o", "m", "sp", "d", "o", "c", "u", "m", "e", "n", "t">>,
      <<"d", "a", "t", "a", "sp", "f", "r", "o", "m", "sp", "p", "d", "f">>
    >>

\* for trigger in self.RAG_TRIGGERS: if trigger in query_lower: return "rag"
RECURSIVE ClassifyFrom(_, _)
ClassifyFrom(query_lower, k) ==
    IF k > Len(RAG_TRIGGERS) THEN "llm"
    ELSE IF In(RAG_TRIGGERS[k], query_lower) THEN "rag"
    ELSE ClassifyFrom(query_lower, k + 1)

\* classify(query)
Classify(query) == ClassifyFrom(Strip(Lower(query)), 1)

\* should_use_rag(query)
ShouldUseRag(query) == Classify(query) = "rag"

\* What the user types into the chat box.
Prompts ==
    {
      <<"w", "h", "a", "t", "sp", "d", "o", "e", "s", "sp", "t", "h", "e",
        "sp", "d", "o", "c", "u", "m", "e", "n", "t", "sp", "s", "a", "y",
        "sp", "a", "b", "o", "u", "t", "sp", "X">>,
      <<"w", "h", "a", "t", "'", "s", "sp", "t", "h", "e", "sp", "w", "e",
        "a", "t", "h", "e", "r", "sp", "t", "o", "d", "a", "y">>,
      <<"sp", "sp", "C", "H", "E", "C", "K", "sp", "T", "H", "E", "sp",
        "P", "D", "F", "sp">>,
      <<"i", "n", "sp", "t", "h", "e", "sp", "d", "o", "c">>
    }

\* The classification of each prompt the model submits.
Classified == [p \in Prompts |-> Classify(p)]

----------------------------------------------------------------------------
(* One browser session of src/app.py. Every interaction runs the script    *)
(* from the top: the session is looked up, its collection name resolved,   *)
(* and then the handler of the widget that was used runs.                  *)

MaxQuestions == 2    \* most questions submitted over a behaviour

\* An upload can also fail in doc_service.save_uploaded_file, before
\* process_document is called.
UploadFailures == {"save"} \cup ProcessFailures

\* The documents a user uploads have no text or split into MaxChunks chunks.
UploadSizes == {0, MaxChunks}

\* session_data = session_service.get_session(session_id)
\* collection_name = session_service.get_collection_name(session_id)
\*                   if config.USE_SESSION_COLLECTIONS else "pdf_documents"
RunTop(ss, session_id, use_session_collections, t) ==
    LET g == GetSession(ss, session_id, t)
        c == GetCollectionName(g.sessions, session_id, t)
    IN  IF use_session_collections
        THEN [sessions |-> c.sessions, collection_name |-> c.ret]
        ELSE [sessions |-> g.sessions, collection_name |-> Some(DefaultCollection)]

\* A handler that sends every question to the chat model.
RouteIgnoringClassifier(use_rag, uploaded_files_info, use_session_collections) ==
    "llm"

\* The branches of the chat input handler.
Route(use_rag, uploaded_files_info, use_session_collections) ==
    IF use_rag /\ uploaded_files_info = <<>> /\ use_session_collections
    THEN "warn"
    ELSE IF use_rag THEN "rag"
    ELSE "llm"

\* A script run that is not a chat submission: prompt and use_rag are locals
\* of the chat handler and do not exist in it.
Rerun(a) ==
    [a EXCEPT !.phase = "ready", !.prompt = <<>>, !.use_rag = FALSE,
              !.route = "none"]

AppFrame == UNCHANGED <<trace, conc, now, destroyed, last, race>>

InitApp ==
    /\ store = SessionStore
    /\ uuids = 0
    /\ pc = "idle"
    /\ call = NoCall
    /\ gen = GenIdle
    /\ result = NoResult
    /\ trace = <<>>
    /\ conc = ConcOff
    /\ sessions = CreateSession(NoSessions, Uuid4(1), 0).sessions
    /\ now = 0
    /\ issued = 1
    /\ destroyed = {}
    /\ dropped = {}
    /\ last = NoLast
    /\ \E flag \in BOOLEAN :
          app = [AppOff EXCEPT !.phase = "ready", !.session_id = Uuid4(1),
                               !.use_session_collections = flag]
    /\ race = RaceOff

\* The "Process Document" button.
AppProcessDocument ==
    /\ app.phase # "chat"
    /\ pc = "idle"
    /\ \E file \in Files, n \in UploadSizes, fail \in UploadFailures :
          /\ uuids + n <= MaxRecords
          /\ LET top == RunTop(sessions, app.session_id,
                               app.use_session_collections, now)
                 p == ProcessDocument(store, uuids, top.collection_name.val,
                                      file, n, fail)
                 seen == [Rerun(app) EXCEPT !.collection_name = top.collection_name]
             IN  IF fail = "save"
                 THEN /\ sessions' = top.sessions
                      /\ app' = seen
                      /\ result' = NoResult
                      /\ UNCHANGED <<store, uuids>>
                 ELSE /\ store' = p.store
                      /\ uuids' = p.uuids
                      /\ result' = p.result
                      /\ IF p.result.error.some
                         THEN /\ sessions' = top.sessions
                              /\ app' = seen
                         ELSE /\ sessions' =
                                    AddFileToSession(top.sessions, app.session_id,
                                                     file, p.result.count.val, now)
                              /\ app' = [seen EXCEPT !.uploaded_files_info =
                                           Append(@, [filename |-> file,
                                                      chunks |-> p.result.count.val])]
    /\ gen' = GenIdle
    /\ UNCHANGED <<pc, call, issued, dropped>>
    /\ AppFrame

\* The "Clear Session" button.
AppClearSession ==
    /\ app.phase # "chat"
    /\ pc = "idle"
    /\ issued < MaxSessions
    /\ LET top == RunTop(sessions, app.session_id,
                         app.use_session_collections, now)
           coll == top.collection_name.val
           c == CreateSession(top.sessions, Uuid4(issued + 1), now)
       IN  /\ IF app.use_session_collections
              THEN \E ok \in BOOLEAN :
                      IF ok
                      THEN /\ store' = ClearCollection(InitializeStore(store, coll),
                                                       coll)
                           /\ dropped' = dropped \cup {coll}
                      ELSE UNCHANGED <<store, dropped>>
              ELSE UNCHANGED <<store, dropped>>
           /\ sessions' = c.sessions
           /\ app' = [Rerun(app) EXCEPT !.collection_name = top.collection_name,
                                        !.uploaded_files_info = <<>>,
                                        !.session_id = c.ret.val]
    /\ issued' = issued + 1
    /\ result' = NoResult
    /\ gen' = GenIdle
    /\ UNCHANGED <<uuids, pc, call>>
    /\ AppFrame

\* The chat input: classify the prompt, take one of the three branches, and
\* (when the branch has its answer) count the query.
AppChatInput ==
    /\ app.phase # "chat"
    /\ pc = "idle"
    /\ app.asked < MaxQuestions
    /\ \E prompt \in Prompts, fail \in QueryFailures :
          LET top == RunTop(sessions, app.session_id,
                            app.use_session_collections, now)
              use_rag == Classified[prompt] = "rag"
              route == Route(use_rag, app.uploaded_files_info,
                             app.use_session_collections)
              asked == [app EXCEPT !.prompt = prompt, !.use_rag = use_rag,
                                   !.route = route, !.asked = @ + 1,
                                   !.collection_name = top.collection_name]
              counted == IncrementQueryCount(top.sessions, app.session_id, now)
          IN  CASE route = "warn" ->
                    /\ sessions' = counted
                    /\ app' = [asked EXCEPT !.phase = "answered"]
                    /\ result' = NoResult
                    /\ gen' = GenIdle
                    /\ UNCHANGED <<store, uuids, pc, call>>
                [] route = "rag" ->
                    /\ Query(Some(prompt), top.collection_name.val,
                             Some(TOP_K_RESULTS), fail)
                    /\ IF pc' = "idle"
                       THEN /\ sessions' = counted
                            /\ app' = [asked EXCEPT !.phase = "answered"]
                       ELSE /\ sessions' = top.sessions
                            /\ app' = [asked EXCEPT !.phase = "chat"]
                [] OTHER ->
                    /\ Chat(Some(prompt))
                    /\ sessions' = top.sessions
                    /\ app' = [asked EXCEPT !.phase = "chat"]
    /\ UNCHANGED <<issued, dropped>>
    /\ AppFrame

\* One attempt of the generate call the handler waits in; when it ends the
\* handler has its answer and counts the query.
AppGenAttempt ==
    /\ app.phase = "chat"
    /\ \E resp \in Responses : Generate(resp)
    /\ IF pc' = "idle"
       THEN /\ sessions' = IncrementQueryCount(sessions, app.session_id, now)
            /\ app' = [app EXCEPT !.phase = "answered"]
       ELSE UNCHANGED <<sessions, app>>
    /\ UNCHANGED <<issued, dropped>>
    /\ AppFrame

NextApp ==
    \/ AppProcessDocument
    \/ AppClearSession
    \/ AppChatInput
    \/ AppGenAttempt

SpecApp == InitApp /\ [][NextApp]_vars

----------------------------------------------------------------------------
(* The life of a collection: insert batches whose uuid4 prefixes are drawn *)
(* at random, deletions, and queries in between.                           *)

\* The collections followed: the shared one and one session's.
LifeNames == {DefaultCollection, CollectionName(<<"a1", "-", "b2">>)}

\* The ids add_documents generates for a batch, in order.
BatchIds(u, docs, embeddings) ==
    LET l == RunLoop({}, <<>>, u, docs, embeddings, 1)
    IN  [i \in DOMAIN l.pending |-> l.pending[i].id]

InitColl ==
    /\ store = EmptyStore
    /\ uuids = 0
    /\ pc = "idle"
    /\ call = NoCall
    /\ gen = GenIdle
    /\ result = NoResult
    /\ trace = <<>>
    /\ conc = ConcOff
    /\ RegistryOff

\* process_document(file_path, collection_name). uuid4().hex[:8] keeps 32 of
\* the 122 random bits, so the first prefix of a batch is a value drawn
\* before (any of 0..uuids-1) or a new one (uuids). trace lists the ids
\* generated for each collection since it was last deleted; dropped holds
\* the names that were deleted with records in them and not inserted into
\* since.
ProcessDocumentDrawn ==
    /\ pc = "idle"
    /\ \E coll \in LifeNames, file \in Files, n \in 0..MaxChunks,
          fail \in ProcessFailures, u \in 0..uuids :
          /\ uuids + n <= MaxRecords
          /\ LET p == ProcessDocument(store, u, coll, file, n, fail)
                 drawn == IF p.uuids = u THEN <<>>
                          ELSE BatchIds(u, Chunks(file, n, coll),
                                        Embeddings(file, n, fail))
             IN  /\ store' = p.store
                 /\ uuids' = uuids + (p.uuids - u)
                 /\ result' = p.result
                 /\ trace' = trace \o [i \in DOMAIN drawn |->
                                          [coll |-> coll, id |-> drawn[i]]]
                 /\ dropped' = IF Records(p.store, coll) # {}
                               THEN dropped \ {coll} ELSE dropped
    /\ gen' = GenIdle
    /\ UNCHANGED <<pc, call, conc>>
    /\ UNCHANGED <<sessions, now, issued, destroyed, last, app, race>>

\* delete_collection(collection_name)
DeleteCollectionLogged ==
    /\ pc = "idle"
    /\ \E coll \in LifeNames :
          /\ store' = ClearCollection(InitializeStore(store, coll), coll)
          /\ result' = Result("delete_collection", coll, None, None, <<>>, <<>>,
                              None, "none", "none")
          /\ trace' = SelectSeq(trace, LAMBDA e : e.coll # coll)
          /\ dropped' = IF Records(store, coll) # {}
                        THEN dropped \cup {coll} ELSE dropped
    /\ gen' = GenIdle
    /\ UNCHANGED <<uuids, pc, call, conc>>
    /\ UNCHANGED <<sessions, now, issued, destroyed, last, app, race>>

\* query(question, collection_name) with a question that is not empty and
\* the default top_k.
QueryCollection ==
    /\ \E coll \in LifeNames, fail \in QueryFailures :
          Query(Some(<<"ch">>), coll, None, fail)
    /\ UNCHANGED trace
    /\ UNCHANGED svars

\* get_collection_stats(collection_name)
GetCollectionStatsCall ==
    /\ pc = "idle"
    /\ \E coll \in LifeNames, fail \in {"none", "open"} :
          LET g == GetCollectionStats(store, coll, fail)
          IN  /\ store' = g.store
              /\ result' = g.result
    /\ gen' = GenIdle
    /\ UNCHANGED <<uuids, pc, call, trace, conc>>
    /\ UNCHANGED svars

NextColl ==
    \/ ProcessDocumentDrawn
    \/ DeleteCollectionLogged
    \/ QueryCollection
    \/ GetCollectionStatsCall
    \/ GenAttempt

SpecColl == InitColl /\ [][NextColl]_vars

----------------------------------------------------------------------------
(* GeminiLLM.generate called on its own, with any attempt bound.           *)

\* The values of max_retries a caller passes: negative, zero, and up to the
\* default.
RetryBounds == -1..DEFAULT_MAX_RETRIES

InitLlm ==
    /\ store = EmptyStore
    /\ uuids = 0
    /\ pc = "idle"
    /\ call = NoCall
    /\ gen = GenIdle
    /\ result = NoResult
    /\ trace = <<>>
    /\ conc = ConcOff
    /\ RegistryOff

\* generate(prompt, max_retries) is entered.
GenerateCall ==
    /\ pc = "idle"
    /\ \E max_retries \in RetryBounds :
          /\ gen' = GenBegin(max_retries)
          /\ pc' = IF gen'.status = "running" THEN "gen" ELSE "idle"
    /\ trace' = <<>>
    /\ UNCHANGED <<store, uuids, call, result, conc>>
    /\ UNCHANGED svars

\* One iteration of generate's loop; trace records what the attempt met.
GenerateAttempt ==
    /\ pc = "gen"
    /\ gen.status = "running"
    /\ \E resp \in Responses :
          /\ gen' = GenStep(gen, resp)
          /\ pc' = IF gen'.status = "running" THEN "gen" ELSE "idle"
          /\ trace' = Append(trace, TraceEntry(resp))
    /\ UNCHANGED <<store, uuids, call, result, conc>>
    /\ UNCHANGED svars

NextLlm ==
    \/ GenerateCall
    \/ GenerateAttempt

SpecLlm == InitLlm /\ [][NextLlm]_vars

----------------------------------------------------------------------------
(* RAGService.health_check (src/services/rag_service.py): three probes in  *)
(* one try block, against components that are up or down.                 *)

Components == {"embedding_manager", "llm", "vector_store"}

\* health = {"embedding_manager": False, "llm": False, "vector_store": False,
\*           "overall": False}
HealthNone ==
    [embedding_manager |-> FALSE, llm |-> FALSE, vector_store |-> FALSE,
     overall |-> FALSE]

\* health["embedding_manager"] = len(test_embedding) > 0
AfterEmbedding(health, test_embedding) ==
    [health EXCEPT !.embedding_manager = Len(test_embedding) > 0]

\* health["llm"] = test_response is not None
AfterLlm(health, test_response) == [health EXCEPT !.llm = test_response.some]

\* health["vector_store"] = stats is not None, then
\* health["overall"] = all([...])
AfterVectorStore(health) ==
    LET h == [health EXCEPT !.vector_store = TRUE]
    IN  [h EXCEPT !.overall = h.embedding_manager /\ h.llm /\ h.vector_store]

\* What health_check returns. up is not part of the value: it tells which
\* components were up while the check ran.
HealthResult(health, up) == [op |-> "health_check", health |-> health, up |-> up]

InitHealth ==
    /\ store = EmptyStore
    /\ uuids = 0
    /\ pc = "idle"
    /\ call = NoCall
    /\ gen = GenIdle
    /\ result = NoResult
    /\ trace = <<>>
    /\ conc = ConcOff
    /\ RegistryOff

\* health_check() up to the generate call: the embedding probe. A component
\* that is down raises, which ends the check in the except clause.
HealthBegin ==
    /\ pc = "idle"
    /\ \E up \in [Components -> BOOLEAN] :
          IF ~up.embedding_manager
          THEN /\ result' = HealthResult(HealthNone, up)
               /\ gen' = GenIdle
               /\ UNCHANGED <<pc, call>>
          ELSE /\ pc' = "gen"
               /\ call' = [op |-> "health_check", coll |-> DefaultCollection,
                           results |-> <<>>, top_k |-> 0, up |-> up,
                           health |-> AfterEmbedding(HealthNone,
                                                     <<EncodeQuestion(<<"test">>)>>)]
               /\ gen' = GenBegin(DEFAULT_MAX_RETRIES)
               /\ result' = NoResult
    /\ UNCHANGED <<store, uuids, trace, conc>>
    /\ UNCHANGED svars

\* One attempt of self.llm.generate("test prompt"); when generate returns,
\* the index probe (which opens "pdf_documents") and the end of the check
\* follow in the same step. A generation backend that is up answers with
\* text, one that is down fails every attempt.
HealthGenAttempt ==
    /\ pc = "gen"
    /\ call.op = "health_check"
    /\ gen.status = "running"
    /\ \E resp \in Responses :
          /\ Attempt(resp).ret = call.up.llm
          /\ LET g == GenStep(gen, resp)
                 h == AfterLlm(call.health, g.text)
             IN  /\ gen' = g
                 /\ IF g.status = "running"
                    THEN UNCHANGED <<pc, call, result, store>>
                    ELSE /\ pc' = "idle"
                         /\ call' = NoCall
                         /\ IF g.status = "raised"
                            THEN /\ result' = HealthResult(call.health, call.up)
                                 /\ store' = store
                            ELSE IF ~call.up.vector_store
                            THEN /\ result' = HealthResult(h, call.up)
                                 /\ store' = store
                            ELSE /\ result' = HealthResult(AfterVectorStore(h),
                                                           call.up)
                                 /\ store' = InitializeStore(store,
                                                             DefaultCollection)
    /\ UNCHANGED <<uuids, trace, conc>>
    /\ UNCHANGED svars

\* The service keeps ingesting and deleting between health checks.
NextHealth ==
    \/ HealthBegin
    \/ HealthGenAttempt
    \/ ProcessDocumentCall
    \/ DeleteCollectionCall

SpecHealth == InitHealth /\ [][NextHealth]_vars

----------------------------------------------------------------------------
(* Properties.                                                             *)

FailureClasses ==
    {"transport", "safety", "recitation", "max_tokens_notext", "other"}
Classes(t) == [i \in 1..Len(t) |-> t[i].class]

\* C1: with the default bound of 3 attempts, two transport failures do not
\* end the call; when attempt 3 then completes with STOP and text, generate
\* returns that text, stripped, and the service call reports no error; when
\* three attempts fail, generate raises after exactly 3 invocations; and no
\* call ever makes a 4th invocation.
C1_RetryBound ==
    /\ gen.calls = Len(trace) /\ gen.calls <= DEFAULT_MAX_RETRIES
    /\ Classes(trace) = <<"transport", "transport">> => gen.status = "running"
    /\ Classes(trace) = <<"transport", "transport", "stop_text">> =>
          /\ gen.status = "returned"
          /\ gen.text = Some(Strip(trace[3].text))
          /\ gen.err = "none"
          /\ pc = "idle" /\ result.error = None /\ result.answer = gen.text
    /\ (Len(trace) = 3 /\ \A i \in 1..3 : trace[i].class \in FailureClasses) =>
          /\ gen.status = "raised"
          /\ gen.calls = 3
          /\ pc = "idle" /\ result.error # None

C1_Witness ==
    /\ Classes(trace) = <<"transport", "transport", "stop_text">>
    /\ gen.status = "returned"
    /\ gen.text = Some(<<"ch">>)

\* C2: a response with finish reason SAFETY or RECITATION ends generate at
\* once: the call has raised after that one invocation, without any wait.
C2_BlockedNotRetried ==
    (trace # <<>> /\ trace[1].class \in {"safety", "recitation"}) =>
        /\ gen.status = "raised"
        /\ gen.calls = 1
        /\ gen.waits = <<>>

\* C3 as stated: every attempt whose response finished with MAX_TOKENS is the
\* last one of its call and the call returned.
C3_MaxTokensAlwaysReturned ==
    \A i \in 1..Len(trace) :
        trace[i].class \in {"max_tokens_text", "max_tokens_notext"} =>
            i = Len(trace) /\ gen.status = "returned"

\* C3, amended: an attempt whose response finished with MAX_TOKENS and
\* carries non-empty text is the last one of its call, and the call returned
\* that text, stripped, with the truncation notice appended, and no error.
C3_TruncatedReturned ==
    \A i \in 1..Len(trace) :
        trace[i].class = "max_tokens_text" =>
            /\ i = Len(trace)
            /\ gen.status = "returned"
            /\ gen.text = Some(Strip(trace[i].text) \o TruncationNotice)
            /\ gen.err = "none"
            /\ pc = "idle" /\ result.error = None /\ result.answer = gen.text

C3_Witness ==
    /\ Len(trace) = 2
    /\ trace[2].class = "max_tokens_text"
    /\ gen.text = Some(<<"ch">> \o TruncationNotice)

\* C4: when generate has raised, the query or chat call that invoked it has
\* returned a result with a non-empty error string and answer None.
C4_GenerationFailureSurfaced ==
    gen.status = "raised" =>
        /\ pc = "idle"
        /\ result.op \in {"query", "chat"}
        /\ result.cause = "generation"
        /\ result.error.some /\ result.error.val # <<>>
        /\ result.answer = None

C4_Witness ==
    /\ gen.status = "raised"
    /\ result.op = "chat"
    /\ result.error = Some(<<"Error during chat: ", "transport error">>)

\* C5: a query whose retrieval returned no results returns the fixed answer
\* with no sources, an empty context and no error, and generate was not
\* invoked.
C5_EmptyRetrieval ==
    (pc = "idle" /\ result.op = "query" /\ result.retrieved = 0) =>
        /\ result.answer = Some(NoInfoAnswer)
        /\ result.sources = <<>>
        /\ result.context_used = <<>>
        /\ result.error = None
        /\ gen.status = "idle" /\ gen.calls = 0

C5_Witness ==
    /\ pc = "idle" /\ result.op = "query" /\ result.retrieved = 0
    /\ result.answer = Some(NoInfoAnswer)
    /\ \E c \in CollNames : Records(store, c) # {}

\* C6: no service call lets an exception out: every call returns a value, and
\* when a step failed inside it the value carries a non-empty error string.
C6_NeverRaises ==
    /\ ~result.raised
    /\ result.cause # "none" => result.error.some /\ result.error.val # <<>>

C6_Witness ==
    /\ result.op = "process_document"
    /\ result.cause = "index_add"
    /\ result.error.some
    /\ ~result.raised

\* C7: a result of query or chat whose error is set has answer None and no
\* sources.
C7_ErrorExcludesAnswer ==
    (result.op \in {"query", "chat"} /\ result.error.some) =>
        result.answer = None /\ result.sources = <<>>

C7_Witness ==
    /\ result.op = "query"
    /\ result.cause = "generation"
    /\ result.retrieved > 0
    /\ result.error.some /\ result.answer = None /\ result.sources = <<>>

\* C8: every record of a collection was inserted by a process_document call
\* that named that collection, and every source a query returns comes from a
\* chunk inserted by a call that named the queried collection.
C8_CollectionIsolation ==
    /\ \A c \in CollNames : \A r \in Records(store, c) : r.named = c
    /\ result.op = "query" =>
          \A i \in 1..Len(result.sources) : result.sources[i].named = result.coll

C8_Witness ==
    /\ result.op = "query"
    /\ result.sources # <<>>
    /\ \E c \in CollNames : c # result.coll /\ Records(store, c) # {}

\* C10: a process_document call that returns an error leaves every
\* collection with exactly the records it held before the call.
C10_InsertAllOrNothing ==
    [][(pc = "idle" /\ result'.op = "process_document" /\ result'.error.some) =>
            \A c \in CollNames : Records(store', c) = Records(store, c)]_vars

C10_Witness ==
    /\ result.op = "process_document"
    /\ result.cause = "index_add"
    /\ result.error.some
    /\ Cardinality(Records(store, result.coll)) = 1

\* C9: a query that runs while add_documents inserts a batch of n records
\* into the same collection ranks either none or all n of the batch, and
\* every record the collection held before the insert began; what it returns
\* is drawn from those.
C9_InsertAtomicForReaders ==
    conc.qpc = "done" =>
        LET batch == {r \in conc.seen : r.id.u >= conc.u}
        IN  /\ Cardinality(batch) \in {0, Len(conc.docs)}
            /\ conc.before \subseteq conc.seen
            /\ Range(conc.hits) \subseteq conc.seen
            /\ Len(conc.hits) >= 1 \/ conc.seen = {}

C9_Witness ==
    /\ conc.qpc = "done"
    /\ conc.ipc = "loop"
    /\ conc.i = 2 /\ Len(conc.docs) = 2
    /\ conc.seen = conc.before
    /\ conc.before # {}

\* A step that is a call of the registry operation op.
Calls(op) == last'.n # last.n /\ last'.op = op

\* The ids create_session has returned so far.
IssuedIds == {Uuid4(m) : m \in 1..issued}

\* C11: a session id removed by delete_session or cleanup_expired_sessions
\* is never in the registry again: update_session, add_file_to_session,
\* increment_query_count and get_session on it leave the registry as it is,
\* and create_session never returns it.
C11_DestroyedIsFinal ==
    [][/\ \A sid \in destroyed : sid \notin DOMAIN sessions'
       /\ (/\ \/ Calls("update_session")
              \/ Calls("add_file_to_session")
              \/ Calls("increment_query_count")
              \/ Calls("get_session")
           /\ last'.sid \in destroyed) => sessions' = sessions
       /\ Calls("create_session") => last'.ret.val \notin destroyed]_vars

C11_Witness ==
    /\ last.op = "increment_query_count"
    /\ last.sid \in destroyed
    /\ DOMAIN sessions # {}

\* C13: cleanup_expired_sessions returns exactly the ids whose idle time
\* now - last_activity exceeds the timeout when it is called, removes exactly
\* those, and leaves every other session in the registry with its record
\* unchanged.
C13_CleanupExact ==
    [][Calls("cleanup_expired_sessions") =>
        LET expired ==
                {sid \in DOMAIN sessions :
                    now - sessions[sid].last_activity > SESSION_TIMEOUT_MINUTES}
        IN  /\ last'.ret.val = expired
            /\ DOMAIN sessions' = DOMAIN sessions \ expired
            /\ \A sid \in DOMAIN sessions' : sessions'[sid] = sessions[sid]]_vars

C13_Witness ==
    /\ last.op = "cleanup_expired_sessions"
    /\ last.ret.val # {}
    /\ \E sid \in DOMAIN sessions :
          now - sessions[sid].last_activity = SESSION_TIMEOUT_MINUTES

\* C14: create_session returns an id different from every id returned
\* before, with a collection name different from every earlier session's;
\* the new session has document_count 0, query_count 0 and no uploaded
\* files, and the records of the sessions already there are unchanged.
C14_CreateFresh ==
    [][Calls("create_session") =>
        LET id == last'.ret.val
        IN  /\ id \notin IssuedIds
            /\ id \in DOMAIN sessions'
            /\ \A other \in IssuedIds :
                  sessions'[id].collection_name # CollectionName(other)
            /\ \A other \in DOMAIN sessions :
                  sessions'[id].collection_name # sessions[other].collection_name
            /\ sessions'[id].document_count = 0
            /\ sessions'[id].query_count = 0
            /\ sessions'[id].uploaded_files = <<>>
            /\ DOMAIN sessions' = DOMAIN sessions \cup {id}
            /\ \A other \in DOMAIN sessions : sessions'[other] = sessions[other]]_vars

C14_Witness ==
    /\ last.op = "create_session"
    /\ issued = 2
    /\ Cardinality(DOMAIN sessions) = 2
    /\ \E sid \in DOMAIN sessions : sessions[sid].uploaded_files # <<>>

\* C15: every live session's collection name is the one derived from its id,
\* and no other session, live or destroyed, has that name.
C15_NameFixedAndUnshared ==
    \A sid \in DOMAIN sessions :
        /\ sessions[sid].collection_name = CollectionName(sid)
        /\ \A other \in DOMAIN sessions \ {sid} :
              sessions[other].collection_name # sessions[sid].collection_name
        /\ \A other \in destroyed \ {sid} :
              CollectionName(other) # sessions[sid].collection_name

\* C16: a call of add_file_to_session or increment_query_count on a live
\* session sets its last_activity to the current time.
C16_UploadAndQueryTouch ==
    [][(/\ Calls("add_file_to_session") \/ Calls("increment_query_count")
        /\ last'.sid \in DOMAIN sessions)
            => sessions'[last'.sid].last_activity = now]_vars

\* C17: add_file_to_session on a live session appends one entry for the file
\* after the entries already there, adds the chunk count to document_count
\* and leaves query_count, collection_name and every other session alone; on
\* an unknown id it changes nothing.
C17_AddFileFrame ==
    [][Calls("add_file_to_session") =>
        LET sid == last'.sid
        IN  IF sid \in DOMAIN sessions
            THEN LET old == sessions[sid]
                     new == sessions'[sid]
                     k == Len(old.uploaded_files)
                 IN  /\ DOMAIN sessions' = DOMAIN sessions
                     /\ Len(new.uploaded_files) = k + 1
                     /\ SubSeq(new.uploaded_files, 1, k) = old.uploaded_files
                     /\ new.uploaded_files[k + 1].filename \in Files
                     /\ new.uploaded_files[k + 1].document_count = last'.ret.val
                     /\ new.document_count = old.document_count + last'.ret.val
                     /\ new.query_count = old.query_count
                     /\ new.collection_name = old.collection_name
                     /\ \A other \in DOMAIN sessions \ {sid} :
                           sessions'[other] = sessions[other]
            ELSE sessions' = sessions]_vars

C17_Witness ==
    /\ last.op = "add_file_to_session"
    /\ last.sid \in DOMAIN sessions
    /\ Len(sessions[last.sid].uploaded_files) = 2
    /\ sessions[last.sid].uploaded_files[1] # sessions[last.sid].uploaded_files[2]
    /\ Cardinality(DOMAIN sessions) = 2

RECURSIVE SumOfCalls(_, _)
SumOfCalls(ts, op) ==
    IF ts = {} THEN 0
    ELSE LET t == CHOOSE x \in ts : TRUE
         IN  (IF race.threads[t].op = op THEN race.threads[t].n ELSE 0)
                + SumOfCalls(ts \ {t}, op)

\* C18: when m concurrent increment_query_count calls and some concurrent
\* add_file_to_session calls on one session have all finished, query_count
\* has grown by m and document_count by the sum of the recorded chunk counts.
C18_NoLostUpdate ==
    (race.on /\ \A t \in Threads : race.threads[t].at = "done") =>
        /\ sessions[race.sid].query_count =
              SumOfCalls(Threads, "increment_query_count")
        /\ sessions[race.sid].document_count =
              SumOfCalls(Threads, "add_file_to_session")

\* C12 (as stated): a session is in the registry exactly as long as its
\* backing collection has not been deleted; neither survives the other.
C12_SessionAndCollectionTogether ==
    \A sid \in IssuedIds :
        (sid \in DOMAIN sessions) <=> (CollectionName(sid) \notin dropped)

\* Whether the lower-cased prompt contains a trigger phrase, per prompt.
ContainsTrigger ==
    [p \in Prompts |->
        \E k \in 1..Len(RAG_TRIGGERS) : In(RAG_TRIGGERS[k], Lower(p))]

\* The classification of each prompt typed in capitals.
ClassifiedUpper == [p \in Prompts |-> Classify(Upper(p))]

DocumentExample ==
    <<"w", "h", "a", "t", "sp", "d", "o", "e", "s", "sp", "t", "h", "e",
      "sp", "d", "o", "c", "u", "m", "e", "n", "t", "sp", "s", "a", "y",
      "sp", "a", "b", "o", "u", "t", "sp", "X">>

WeatherExample ==
    <<"w", "h", "a", "t", "'", "s", "sp", "t", "h", "e", "sp", "w", "e",
      "a", "t", "h", "e", "r", "sp", "t", "o", "d", "a", "y">>

\* C19: a question is classified document-search exactly when its
\* lower-cased text contains a trigger phrase and general-chat otherwise,
\* whatever the letter case and whatever was asked before; the two example
\* questions are document-search and general-chat.
C19_ClassifyBySubstring ==
    /\ app.route # "none" =>
          /\ app.use_rag <=> ContainsTrigger[app.prompt]
          /\ Classified[app.prompt] = (IF app.use_rag THEN "rag" ELSE "llm")
          /\ ClassifiedUpper[app.prompt] = Classified[app.prompt]
    /\ Classified[DocumentExample] = "rag"
    /\ Classified[WeatherExample] = "llm"

\* The second question of a browser session, typed with capitals, was
\* classified document-search.
C19_Witness ==
    /\ app.asked = MaxQuestions
    /\ Lower(app.prompt) # app.prompt
    /\ app.use_rag

\* The service call the chat handler has made for the current question.
Invoked == IF pc = "gen" THEN call.op ELSE result.op

\* C20 (as stated): every document-search question runs retrieval plus
\* generation on the caller's own session collection, every general-chat
\* question goes to the chat call with no retrieval.
C20_RoutedByClassification ==
    app.phase \in {"chat", "answered"} =>
        IF app.use_rag
        THEN /\ Invoked = "query"
             /\ (IF pc = "gen" THEN call.coll ELSE result.coll)
                   = CollectionName(app.session_id)
        ELSE /\ Invoked = "chat"
             /\ pc = "idle" => result.retrieved = -1

\* What the handler has done for the current question, by branch.
Routed ==
    app.phase \in {"chat", "answered"} =>
        /\ app.collection_name =
              (IF app.use_session_collections
               THEN Some(CollectionName(app.session_id))
               ELSE Some(DefaultCollection))
        /\ IF app.use_rag /\ app.use_session_collections
                          /\ app.uploaded_files_info = <<>>
           THEN /\ app.route = "warn"
                /\ app.phase = "answered"
                /\ result = NoResult
           ELSE IF app.use_rag
           THEN /\ app.route = "rag"
                /\ Invoked = "query"
                /\ (IF pc = "gen" THEN call.coll ELSE result.coll)
                      = app.collection_name.val
           ELSE /\ app.route = "llm"
                /\ Invoked = "chat"
                /\ pc = "idle" => result.retrieved = -1

\* C20 (amended): a document-search question is sent to the query call on
\* the collection resolved for the caller's session when the browser session
\* has recorded an upload or session collections are disabled, and gets the
\* fixed warning with no retrieval and no generation otherwise; a
\* general-chat question is sent to the chat call, which retrieves nothing
\* and leaves the vector store alone.
C20_RoutedByClassAndUploads ==
    /\ []Routed
    /\ [][(app'.phase \in {"chat", "answered"} /\ app'.route = "llm")
             => store' = store]_vars

\* A document-search question asked after an upload was answered from
\* passages retrieved in the session's own collection.
C20_Witness ==
    /\ app.phase = "answered"
    /\ app.route = "rag"
    /\ app.use_session_collections
    /\ result.op = "query"
    /\ result.coll = CollectionName(app.session_id)
    /\ result.retrieved > 0
    /\ ~result.error.some

\* C28: generate waits 2^(i-1) seconds after failed attempt i (1 s, then
\* 2 s) before attempt i+1, and does not wait after the failed attempt that
\* ends the call.
C28_BackoffSchedule ==
    /\ \A i \in 1..Len(gen.waits) : gen.waits[i] = 2 ^ (i - 1)
    /\ gen.status = "running" => Len(gen.waits) = gen.calls
    /\ gen.status \in {"raised", "returned"} => Len(gen.waits) = gen.calls - 1
    /\ gen.status = "raised" =>
          /\ gen.calls = DEFAULT_MAX_RETRIES
          /\ \A i \in 1..Len(trace) : trace[i].class \in FailureClasses

\* Three attempts failed: generate waited 1 s and 2 s and then raised.
C28_Witness ==
    /\ gen.status = "raised"
    /\ gen.waits = <<1, 2>>

\* C29: when a query ends with an answer, context_used lists the retrieved
\* chunks in rank order, the i-th under the marker Source i (i from 1) with
\* its text, and sources has the same length and order: sources[i] is the
\* result cited as Source i.
C29_ContextAndSourcesInRankOrder ==
    [][(pc = "gen" /\ pc' = "idle" /\ call.op = "query"
          /\ ~result'.error.some) =>
          /\ call.results # <<>>
          /\ Len(result'.context_used) = Len(call.results)
          /\ Len(result'.sources) = Len(call.results)
          /\ \A i \in 1..Len(call.results) :
                LET r == call.results[i]
                    part == result'.context_used[i]
                    src == result'.sources[i]
                IN  /\ r.rank = i
                    /\ part.marker = i
                    /\ part.content = r.content
                    /\ part.source = r.metadata.source
                    /\ part.page = r.metadata.page
                    /\ src.source = part.source
                    /\ src.page = part.page
                    /\ src.similarity = r.similarity_score
                    /\ src.content = Preview(r.content)]_vars

\* A query was answered from two retrieved chunks, cited as Source 1 and
\* Source 2.
C29_Witness ==
    /\ result.op = "query"
    /\ ~result.error.some
    /\ Len(result.sources) = 2
    /\ result.context_used[2].marker = 2
    /\ result.sources[1].page # result.sources[2].page

\* A collection of four records: two documents of two chunks each.
FourRecords ==
    ProcessDocument(
        ProcessDocument(EmptyStore, 0, DefaultCollection, "a.pdf", 2, "none").store,
        2, DefaultCollection, "a.pdf", 2, "none").store

NonIncreasing(scores) ==
    \A i \in 1..(Len(scores) - 1) : scores[i] >= scores[i + 1]

ReportedDistance(src) ==
    Distance(EncodeQuestion(app.prompt), EncodeChunk(src.source, src.page))

\* C25: every source of an answered question has a similarity from 0 to 1,
\* namely 1 - distance where that lies in the range, 0 where the distance is
\* above 1 and 1 where it is below 0.
C25_SimilarityInUnitRange ==
    (app.phase = "answered" /\ app.route = "rag" /\ result.op = "query") =>
        \A i \in 1..Len(result.sources) :
            LET src == result.sources[i]
                d == ReportedDistance(src)
            IN  /\ src.similarity >= 0
                /\ src.similarity <= 100
                /\ src.similarity =
                      (IF d > 100 THEN 0 ELSE IF d < 0 THEN 100 ELSE 100 - d)

\* An answer cites a chunk at distance above 1 from the question, with
\* similarity 0.
C25_Witness ==
    /\ app.phase = "answered"
    /\ app.route = "rag"
    /\ result.op = "query"
    /\ \E i \in 1..Len(result.sources) :
          /\ ReportedDistance(result.sources[i]) > 100
          /\ result.sources[i].similarity = 0

\* C30: get_session, get_collection_name and get_session_stats on a session
\* of the registry set its last_activity to the time of the call, so the
\* session is not expired after the call and a sweep at that moment keeps
\* it; get_session_stats reports it active, however long it had been idle.
C30_ReadsKeepSessionsAlive ==
    [][\A op \in {"get_session", "get_collection_name", "get_session_stats"} :
          (Calls(op) /\ last'.sid \in DOMAIN sessions) =>
              /\ last'.sid \in DOMAIN sessions'
              /\ sessions'[last'.sid].last_activity = now
              /\ ~IsSessionExpired(sessions', last'.sid, now)
              /\ last'.sid \notin CleanupExpiredSessions(sessions', now).ret
              /\ last'.ret.some
              /\ op = "get_session_stats" => last'.ret.val.active]_vars

\* A session created more than the timeout ago and never used since is
\* reported active by get_session_stats.
C30_Witness ==
    /\ last.op = "get_session_stats"
    /\ last.n = 2
    /\ last.ret.some
    /\ last.ret.val.active
    /\ last.sid \in DOMAIN sessions
    /\ sessions[last.sid].last_activity = now
    /\ now - sessions[last.sid].created_at > SESSION_TIMEOUT_MINUTES

\* C26: health_check reports, for each of the three components, whether it
\* was up while the check ran, whatever the state of the other two, and
\* overall is true exactly when the three flags are.
C26_HealthPerComponent ==
    result.op = "health_check" =>
        /\ \A c \in Components : result.health[c] = result.up[c]
        /\ result.health.overall = (\A c \in Components : result.health[c])

\* C22: within one collection's lifetime no id is generated twice: the ids
\* add_documents has produced for a collection since it was last deleted
\* are pairwise different.
C22_IdsNeverRepeat ==
    \A i, j \in DOMAIN trace :
        (i # j /\ trace[i].coll = trace[j].coll) => trace[i].id # trace[j].id

\* C24: process_document returns either a count or an error, never both and
\* never neither; when it returns the count n of a document of n >= 1
\* chunks, the named collection holds exactly n records more than before.
C24_CountGrowsByChunks ==
    [][ProcessDocumentDrawn =>
          /\ (result'.count = None) # (result'.error = None)
          /\ result'.count # None =>
                /\ result'.count.val >= 1
                /\ Cardinality(Records(store', result'.coll))
                     = Cardinality(Records(store, result'.coll))
                       + result'.count.val]_vars

\* C21: a name that was deleted with records in it denotes an existing,
\* empty collection until something is inserted again, and a query on it in
\* that time retrieves nothing and cites no source.
C21_DeletedRecordsNeverReturned ==
    /\ \A c \in dropped : store[c] = [exists |-> TRUE, recs |-> {}]
    /\ (result.op = "query" /\ result.coll \in dropped /\ result.error = None)
          => result.retrieved = 0 /\ result.sources = <<>>

\* C21 (witness): a question was asked of a collection that had been deleted
\* with records in it, and nothing was retrieved.
C21_Witness ==
    /\ result.op = "query"
    /\ result.coll \in dropped
    /\ result.error = None
    /\ result.retrieved = 0

\* C37: a call of is_session_expired leaves the registry as it was (the same
\* sessions, every record unchanged), answers True for an id that is not
\* registered, and answers for a registered id whether it has been idle for
\* more than the timeout.
C37_ExpiryTestIsPureRead ==
    [][(last'.n = last.n + 1 /\ last'.op = "is_session_expired") =>
          /\ sessions' = sessions
          /\ last'.ret.some
          /\ last'.sid \notin DOMAIN sessions => last'.ret.val = TRUE
          /\ last'.sid \in DOMAIN sessions =>
                last'.ret.val = (now - sessions[last'.sid].last_activity
                                   > SESSION_TIMEOUT_MINUTES)]_vars

\* C37 (witness): the test was asked about an id that is not registered,
\* while a session is registered, and answered True.
C37_Witness ==
    /\ last.op = "is_session_expired"
    /\ last.sid \notin DOMAIN sessions
    /\ DOMAIN sessions # {}
    /\ last.ret = Some(TRUE)

\* The chunk counts recorded in a session's uploaded_files, added up.
RECURSIVE SumOfFiles(_)
SumOfFiles(files) ==
    IF files = <<>> THEN 0
    ELSE files[1].document_count + SumOfFiles(Tail(files))

\* C32: whenever no registry call is under way, every registered session's
\* document_count is the sum of the document_count fields of its
\* uploaded_files entries.
C32_DocumentCountIsSumOfFiles ==
    (\A t \in Threads : race.threads[t].at \in {"start", "done"}) =>
        \A sid \in DOMAIN sessions :
            sessions[sid].document_count = SumOfFiles(sessions[sid].uploaded_files)

\* The questions of the browser session that have their answer: all that
\* were submitted, less the one the handler is still waiting on.
QuestionsAnswered == app.asked - (IF app.phase = "chat" THEN 1 ELSE 0)

\* C34: every submitted question adds exactly one to its session's
\* query_count, at the moment the handler has its answer, on the warning
\* path, the document-search path and the chat path, with or without an
\* error in the answer; nothing else changes a query_count. Until the
\* session is cleared its query_count is the number of questions answered.
C34_EachQuestionCountedOnce ==
    /\ [](issued = 1 => sessions[app.session_id].query_count = QuestionsAnswered)
    /\ [][LET submitted == app'.asked = app.asked + 1
              finished == /\ app'.phase = "answered"
                          /\ submitted \/ app.phase = "chat"
          IN  /\ submitted => app.phase # "chat" /\ app'.phase \in {"answered", "chat"}
              /\ finished =>
                    /\ app'.session_id = app.session_id
                    /\ sessions'[app.session_id].query_count
                         = sessions[app.session_id].query_count + 1
              /\ \A sid \in DOMAIN sessions :
                    (~finished \/ sid # app.session_id) =>
                        /\ sid \in DOMAIN sessions'
                        /\ sessions'[sid].query_count = sessions[sid].query_count]_vars

\* C34 (witness): two questions were asked, the second one a document
\* search whose answer carries an error, and the session counts two queries.
C34_Witness ==
    /\ app.phase = "answered"
    /\ app.route = "rag"
    /\ result.op = "query"
    /\ result.error # None
    /\ app.asked = 2
    /\ sessions[app.session_id].query_count = 2

\* None, the empty string, or blanks only.
Blank(question) ==
    ~question.some \/ \A i \in DOMAIN question.val : question.val[i] = "sp"

\* C35: on every directory of collections the service reaches, a query
\* whose question is None, empty or made of blanks is finished before
\* pipeline.answer is entered (so no generation is started), with the error
\* "Question cannot be empty", no answer and no sources; the directory is
\* what it was (nothing opened or created) and the retriever is not reached.
C35_EmptyQuestionRejectedEarly ==
    \A question \in Questions, coll \in CollNames, top_k \in TopKs,
       fail \in QueryFailures :
        Blank(question) =>
            LET q == QueryBegin(store, question, coll, top_k, fail)
            IN  /\ q.done
                /\ q.results = <<>>
                /\ q.store = store
                /\ q.result.op = "query"
                /\ q.result.error = Some(<<"Question cannot be empty">>)
                /\ q.result.answer = None
                /\ q.result.sources = <<>>
                /\ q.result.context_used = <<>>
                /\ q.result.retrieved = -1

\* C35 (witness): an empty question was rejected, and the collection it
\* named still does not exist.
C35_Witness ==
    /\ result.op = "query"
    /\ result.error = Some(<<"Question cannot be empty">>)
    /\ ~store[result.coll].exists
    /\ \E c \in CollNames : store[c].exists

\* C36: a generate call with max_retries <= 0 ends at once, returning None,
\* with no model invocation and no exception; a call with max_retries >= 1
\* never returns None or empty text: when it returns, it returns text of at
\* least one character.
C36_EmptyOnlyWithoutAttempts ==
    /\ (gen.status # "idle" /\ gen.max_retries <= 0) =>
          gen.status = "returned" /\ gen.calls = 0 /\ gen.text = None
    /\ (gen.status = "returned" /\ gen.max_retries >= 1) =>
          gen.text.some /\ gen.text.val # <<>>

\* The smaller of two numbers.
Least(a, b) == IF a < b THEN a ELSE b

\* C38: on every directory of collections the service reaches, a query with
\* top_k = 0 does what the same query with top_k = None does, and what it
\* does with top_k = TOP_K_RESULTS; when nothing fails, it retrieves as many
\* records as the collection holds, up to TOP_K_RESULTS.
C38_ZeroTopKMeansDefault ==
    \A question \in Questions, coll \in CollNames, fail \in QueryFailures :
        LET zero == QueryBegin(store, question, coll, Some(0), fail)
        IN  /\ zero = QueryBegin(store, question, coll, None, fail)
            /\ zero = QueryBegin(store, question, coll, Some(TOP_K_RESULTS), fail)
            /\ (~Blank(question) /\ fail = "none") =>
                  /\ Len(zero.results)
                       = Least(TOP_K_RESULTS, Cardinality(Records(store, coll)))
                  /\ zero.done = (zero.results = <<>>)

\* C38 (witness): a query is waiting for its generation with more results
\* than any top_k a caller passes explicitly, the results a query with
\* top_k = 0 retrieves.
C38_Witness ==
    /\ pc = "gen"
    /\ call.op = "query"
    /\ call.top_k = TOP_K_RESULTS
    /\ Len(call.results) > MaxTopK
    /\ \E question \in Questions :
          QueryBegin(store, question, call.coll, Some(0), "none").results
            = call.results

\* C33: in every state the collections reach, opening a name that does not
\* exist creates it empty and touches no other collection, so that a query
\* on it (nothing else failing) returns the no-information answer with error
\* None and get_collection_stats returns a count of 0; opening a name that
\* exists changes nothing. The error of a query or of get_collection_stats
\* is never about a missing collection: it names a failure of the index, of
\* retrieval or of generation, or an empty question.
C33_OpeningCreatesAndPreserves ==
    /\ \A coll \in CollNames :
          IF store[coll].exists
          THEN InitializeStore(store, coll) = store
          ELSE LET q == QueryBegin(store, Some(<<"ch">>), coll, None, "none")
                   g == GetCollectionStats(store, coll, "none")
                   created == [store EXCEPT ![coll] = [exists |-> TRUE, recs |-> {}]]
               IN  /\ store[coll].recs = {}
                   /\ InitializeStore(store, coll) = created
                   /\ q.done
                   /\ q.store = created
                   /\ q.result.error = None
                   /\ q.result.answer = Some(NoInfoAnswer)
                   /\ g.store = created
                   /\ g.result.count = Some(0)
    /\ (result.op \in {"query", "get_collection_stats"} /\ result.cause # "none")
          => result.cause \in {"index_open", "retrieve", "generation"}

\* C33 (witness): get_collection_stats answered 0 for a collection that now
\* exists and is empty, while another name has never been opened and a third
\* holds records.
C33_Witness ==
    /\ result.op = "get_collection_stats"
    /\ result.count = Some(0)
    /\ store[result.coll] = [exists |-> TRUE, recs |-> {}]
    /\ \E c \in CollNames : ~store[c].exists
    /\ \E c \in CollNames : store[c].recs # {}

\* C31: a sweep that runs while other threads call the registry never ends
\* in an exception, and every session it removes is expired at the moment
\* of its removal.
C31_SweepRemovesOnlyExpired ==
    /\ [](race.at # "raised")
    /\ [][race' # race =>
            \A sid \in DOMAIN sessions \ DOMAIN sessions' :
                IsSessionExpired(sessions, sid, now)]_vars

====
